---- MODULE Spec2Model ----
(***************************************************************************)
(* Model of the framed reliable-transfer protocol of                       *)
(* src/remote_dawn/echo_test_server.py: packet codec, handshake, the       *)
(* receive loop, the send loop with retries, and the connection handler.   *)
(*                                                                         *)
(* A connection endpoint e reads the bytes of wire[e] and writes to        *)
(* wire[Peer(e)].  Byte strings are sequences over 0..255.                 *)
(***************************************************************************)
EXTENDS Integers, Sequences, FiniteSets, TLC

VARIABLES
    wire,              \* wire[e]: bytes written to e by its peer and not yet read
    broken,            \* broken[e]: e's socket raises on every write (reset / broken pipe)
    client_sequences,  \* the per-client session table (line 58), keyed by client address
    hs,                \* handle_handshake activation of each endpoint
    rx,                \* receive_data_with_verification activation of each endpoint
    tx,                \* send_data_with_retries activation of each endpoint
    hc,                \* handle_connection_improved activation of each endpoint
    rdpos,             \* rdpos[e]: number of bytes e has read as a receiver of frames
    peer_frames,       \* frames the scripted peer of e has written, in order
    config,            \* module-level configuration (ECHO_MODE, reply file), the client
                       \* address of each connection, and the
                       \* bytes the peer had written when the connection was accepted
    server,            \* the accept loop of main_improved
    call               \* an invocation of one of the pure functions: its name, its
                       \* argument and, once it has returned, its result

vars == <<wire, broken, client_sequences, hs, rx, tx, hc, rdpos, peer_frames, config, server, call>>

Ends == {"a", "b"}
Peer(e) == IF e = "a" THEN "b" ELSE "a"
\* f"{addr[0]}:{addr[1]}" (lines 161, 245, 336, 810): the key of connection e
client_ip(e) == config.addr[e]

(***************************************************************************)
(* Protocol constants.  PACKET_MAX_SIZE and DEFAULT_MAX_SIZE are scaled    *)
(* down (8192 and 10*1024*1024 in the source); every comparison the code   *)
(* makes against them is kept.                                             *)
(***************************************************************************)
PROTOCOL_VERSION == 1
PACKET_HEADER_SIZE == 8
PACKET_MAX_SIZE == 48
PACKET_TYPE_HANDSHAKE == 1
PACKET_TYPE_DATA == 2
PACKET_TYPE_DATA_END == 3
PACKET_TYPE_ACK == 4
PACKET_TYPE_NACK == 5
DEFAULT_MAX_SIZE == 96
DEFAULT_MAX_RETRIES == 5

Byte == 0..255
NoSession == [present |-> FALSE, send |-> 0, receive |-> 0]
Session(s, r) == [present |-> TRUE, send |-> s, receive |-> r]

Take(s, n) == SubSeq(s, 1, n)
Drop(s, n) == SubSeq(s, n + 1, Len(s))
Min(x, y) == IF x < y THEN x ELSE y

(***************************************************************************)
(* Packet codec                                                            *)
(***************************************************************************)
\* the loop of lines 103-110: sum1 and sum2 after the bytes before position i
RECURSIVE checksum_loop(_, _, _, _)
checksum_loop(data, i, sum1, sum2) ==
    IF i > Len(data) THEN (sum2 * 256) + sum1
    ELSE LET next1 == (sum1 + data[i]) % 255
         IN checksum_loop(data, i + 1, next1, (sum2 + next1) % 255)

\* mutant: sum1 starts at 1
calculate_checksum_from_one(data) == checksum_loop(data, 1, 1, 0)
\* lines 98-110
calculate_checksum(data) == checksum_loop(data, 1, 0, 0)

\* struct ">H" and ">I"; a 32-bit length is kept as two 16-bit halves so that
\* every value of the field is represented exactly.
pack_H(n) == <<(n \div 256) % 256, n % 256>>
unpack_H(b) == b[1] * 256 + b[2]
U32(n) == [hi |-> n \div 65536, lo |-> n % 65536]
pack_I(l) == pack_H(l.hi) \o pack_H(l.lo)
unpack_I(b) == [hi |-> unpack_H(SubSeq(b, 1, 2)), lo |-> unpack_H(SubSeq(b, 3, 4))]
\* l > n and l as a number, for n below 65536
LengthGT(l, n) == l.hi > 0 \/ l.lo > n
LengthVal(l) == l.lo

\* struct.pack(">IBBH", ...), the length given as two halves
pack_IBBH(length, version, packet_type, checksum) ==
    pack_I(length) \o <<version, packet_type>> \o pack_H(checksum)

build_packet_header(data_length, packet_type, checksum) ==
    pack_IBBH(U32(data_length), PROTOCOL_VERSION, packet_type, checksum)

NoHeader == [valid |-> FALSE, length |-> U32(0), version |-> 0, type |-> 0, checksum |-> 0]

\* mutant: the version byte is not looked at
parse_packet_header_any_version(header) ==
    IF Len(header) # PACKET_HEADER_SIZE THEN NoHeader
    ELSE [valid |-> TRUE,
          length |-> unpack_I(SubSeq(header, 1, 4)),
          version |-> header[5],
          type |-> header[6],
          checksum |-> unpack_H(SubSeq(header, 7, 8))]
\* lines 120-136
parse_packet_header(header) ==
    IF Len(header) # PACKET_HEADER_SIZE THEN NoHeader
    ELSE IF header[5] # PROTOCOL_VERSION THEN NoHeader
    ELSE [valid |-> TRUE,
          length |-> unpack_I(SubSeq(header, 1, 4)),
          version |-> header[5],
          type |-> header[6],
          checksum |-> unpack_H(SubSeq(header, 7, 8))]

(***************************************************************************)
(* Socket primitives.  read_exact(conn, n) returns the next n bytes, or    *)
(* None after a close, reset or timeout, in which case the bytes already   *)
(* received are lost.  A write appends to the peer's wire unless the       *)
(* socket is broken, in which case sendall raises.                         *)
(***************************************************************************)
Avail(e) == Len(wire[e])
Written(e, bytes) == IF broken[e] THEN <<>> ELSE bytes

\* the link from e to its peer: the frames of the chunks at the positions in
\* config.corrupt arrive with the first payload byte changed by one, so that
\* the checksum of the payload is no longer the one in the header
Corrupted(frame) ==
    [frame EXCEPT ![PACKET_HEADER_SIZE + 3] = IF @ % 2 = 0 THEN @ + 1 ELSE @ - 1]
\* the responses of a receive loop whose index (the number of responses the
\* loop issued before) is in config.lose are written and never arrive
Lost(e) == rx[e].pc \in {"hdr", "seq", "chunk"} /\ Len(rx[e].resp) \in config.lose
\* the first transmission of the chunk at position f.pos arrives with the
\* payload byte at offset f.at replaced by f.to, for every f in config.flip
Flips(e) ==
    IF tx[e].pc = "send" /\ tx[e].retry = 0
    THEN {f \in config.flip : f.pos = tx[e].total_sent}
    ELSE {}
Flipped(frame, f) == [frame EXCEPT ![PACKET_HEADER_SIZE + 2 + f.at + 1] = f.to]
Link(e, bytes) ==
    IF /\ tx[e].pc = "send" /\ tx[e].total_sent \in config.corrupt
       /\ Len(bytes) >= PACKET_HEADER_SIZE + 3
    THEN Corrupted(bytes)
    ELSE IF Lost(e) THEN <<>>
    ELSE IF Flips(e) # {} /\ bytes # <<>> THEN Flipped(bytes, CHOOSE f \in Flips(e) : TRUE)
    ELSE bytes

\* e reads nread bytes and writes out (if its socket still works).  What is
\* written to a peer played by the environment is kept in the writer's history only.
Transfer(e, nread, out) ==
    /\ wire' = [wire EXCEPT ![e] = Drop(@, nread),
                            ![Peer(e)] = IF Peer(e) \in config.scripted THEN @
                                         ELSE @ \o Link(e, Written(e, out))]
    /\ rdpos' = [rdpos EXCEPT ![e] = @ + nread]

AckHeader == build_packet_header(0, PACKET_TYPE_ACK, 0)
NackHeader == build_packet_header(0, PACKET_TYPE_NACK, 0)
\* send_ack / send_nack return False when sendall raises
send_ack(e) == ~broken[e]
send_nack(e) == ~broken[e]

(***************************************************************************)
(* receive_data_with_verification (lines 240-329), one action per blocking *)
(* read.  rx[e].resp is the history of responses issued: one entry per     *)
(* call of send_ack / send_nack, with the stream offset of the header of   *)
(* the frame it answers and the sequence number expected at that time.     *)
(***************************************************************************)
RxOff == [pc |-> "off", max_size |-> 0, receive_sequence |-> 0,
          received_data |-> <<>>, header_info |-> NoHeader, packet_sequence |-> 0,
          ret |-> "none", resp |-> <<>>, frame_off |-> 0]
RxCall(max_size) == [RxOff EXCEPT !.pc = "start", !.max_size = max_size]

Response(e, kind, why) ==
    [kind |-> kind, why |-> why, ok |-> ~broken[e], off |-> rx[e].frame_off,
     expected |-> rx[e].receive_sequence, have |-> Len(rx[e].received_data)]

\* the tests of lines 276, 281, 296 and 310
packet_too_large(data_length) == LengthGT(data_length, PACKET_MAX_SIZE)
\* mutant: only a checksum above the one announced is refused
checksum_mismatch_above(actual_checksum, checksum) == actual_checksum > checksum
\* line 310
checksum_mismatch(actual_checksum, checksum) == actual_checksum # checksum
\* mutant: the cumulative test forgets the length of the incoming frame
total_too_large_forgets_frame(received_len, data_length, max_size) ==
    received_len > max_size
total_too_large(received_len, data_length, max_size) ==
    received_len + LengthVal(data_length) > max_size
\* mutant: only frames from the future are refused, stale ones are taken
sequence_mismatch_future_only(packet_sequence, receive_sequence) ==
    packet_sequence > receive_sequence
sequence_mismatch(packet_sequence, receive_sequence) == packet_sequence # receive_sequence

\* mutant: the loop continues or returns without calling send_nack
RxNack_without_response(e, r, why, continue) ==
    [r EXCEPT !.pc = IF continue THEN "hdr" ELSE "ret",
              !.ret = IF continue THEN "none" ELSE "None"]
\* the activation record after a Nack: the loop continues or the call returns None
RxNack(e, r, why, continue) ==
    [r EXCEPT !.resp = Append(@, Response(e, "NACK", why)),
              !.pc = IF continue THEN "hdr" ELSE "ret",
              !.ret = IF continue THEN "none" ELSE "None"]

receive_data_start(e) ==
    /\ rx[e].pc = "start"
    /\ client_sequences' = IF client_sequences[client_ip(e)].present THEN client_sequences
                           ELSE [client_sequences EXCEPT ![client_ip(e)] = Session(0, 0)]
    /\ rx' = [rx EXCEPT ![e] = [@ EXCEPT !.pc = "hdr",
                                         !.receive_sequence =
                                             client_sequences'[client_ip(e)].receive,
                                         !.received_data = <<>>]]
    /\ UNCHANGED <<wire, broken, hs, tx, hc, rdpos, peer_frames, config, server, call>>

\* lines 258-284
receive_data_header(e, short) ==
    /\ rx[e].pc = "hdr"
    /\ short <=> Avail(e) < PACKET_HEADER_SIZE
    /\ IF short
       THEN /\ Transfer(e, Avail(e), <<>>)
            /\ rx' = [rx EXCEPT ![e] = [@ EXCEPT !.pc = "ret", !.ret = "None"]]
       ELSE LET header_info == parse_packet_header(Take(wire[e], PACKET_HEADER_SIZE))
                data_length == header_info.length
                r == [rx[e] EXCEPT !.frame_off = rdpos[e], !.header_info = header_info]
                reject == \/ ~header_info.valid
                          \/ packet_too_large(data_length)
                          \/ total_too_large(Len(r.received_data), data_length, r.max_size)
                why == IF ~header_info.valid THEN "header"
                       ELSE IF packet_too_large(data_length) THEN "toolarge"
                       ELSE "total"
            IN /\ Transfer(e, PACKET_HEADER_SIZE, IF reject THEN NackHeader ELSE <<>>)
               /\ rx' = [rx EXCEPT ![e] =
                            IF reject
                            THEN [RxNack(e, r, why, FALSE) EXCEPT
                                     !.resp = Append(r.resp,
                                         [Response(e, "NACK", why) EXCEPT !.off = rdpos[e]])]
                            ELSE [r EXCEPT !.pc = "seq"]]
    /\ UNCHANGED <<broken, client_sequences, hs, tx, hc, peer_frames, config, server, call>>

\* lines 286-299
receive_data_seq(e, short) ==
    /\ rx[e].pc = "seq"
    /\ short <=> Avail(e) < 2
    /\ IF short
       THEN /\ Transfer(e, Avail(e), NackHeader)
            /\ rx' = [rx EXCEPT ![e] = RxNack(e, @, "seqread", FALSE)]
       ELSE LET packet_sequence == unpack_H(Take(wire[e], 2))
                r == [rx[e] EXCEPT !.packet_sequence = packet_sequence]
                mismatch == sequence_mismatch(packet_sequence, r.receive_sequence)
            IN /\ Transfer(e, 2, IF mismatch THEN NackHeader ELSE <<>>)
               /\ rx' = [rx EXCEPT ![e] = IF mismatch THEN RxNack(e, r, "seq", TRUE)
                                          ELSE [r EXCEPT !.pc = "chunk"]]
    /\ UNCHANGED <<broken, client_sequences, hs, tx, hc, peer_frames, config, server, call>>

\* mutant: a checksum mismatch ends the call
continue_after_checksum_mismatch_never == FALSE
\* line 313: continue
continue_after_checksum_mismatch == TRUE

\* mutant: the counter is left where it was
next_receive_sequence_stuck(receive_sequence) == receive_sequence
\* line 322: receive_sequence += 1
next_receive_sequence(receive_sequence) == receive_sequence + 1

\* mutant: every frame that is not of type Data ends the payload
is_last_packet_unless_data(header_info) == header_info.type # PACKET_TYPE_DATA
\* line 326
is_last_packet(header_info) == header_info.type = PACKET_TYPE_DATA_END

\* lines 301-329
receive_data_chunk(e, short) ==
    LET r == rx[e]
        data_length == LengthVal(r.header_info.length)
    IN
    /\ r.pc = "chunk"
    /\ short <=> Avail(e) < data_length
    /\ IF short
       THEN /\ Transfer(e, Avail(e), NackHeader)
            /\ rx' = [rx EXCEPT ![e] = RxNack(e, r, "dataread", FALSE)]
            /\ UNCHANGED client_sequences
       ELSE LET chunk_data == Take(wire[e], data_length)
                actual_checksum == calculate_checksum(chunk_data)
            IN IF chunk_data = <<>>
               THEN \* read_exact(conn, 0) is b"", which "not chunk_data" takes for a failure
                    /\ Transfer(e, 0, NackHeader)
                    /\ rx' = [rx EXCEPT ![e] = RxNack(e, r, "dataread", FALSE)]
                    /\ UNCHANGED client_sequences
               ELSE IF checksum_mismatch(actual_checksum, r.header_info.checksum)
               THEN /\ Transfer(e, data_length, NackHeader)
                    /\ rx' = [rx EXCEPT ![e] =
                                 RxNack(e, r, "checksum", continue_after_checksum_mismatch)]
                    /\ UNCHANGED client_sequences
               ELSE IF ~send_ack(e)
               THEN /\ Transfer(e, data_length, AckHeader)
                    /\ rx' = [rx EXCEPT ![e] = [r EXCEPT
                                 !.resp = Append(@, Response(e, "ACK", "accept")),
                                 !.pc = "ret", !.ret = "None"]]
                    /\ UNCHANGED client_sequences
               ELSE LET last == is_last_packet(r.header_info)
                        \* line 323 raises KeyError when the entry has been deleted
                        known == client_sequences[client_ip(e)].present
                    IN /\ Transfer(e, data_length, AckHeader)
                       /\ rx' = [rx EXCEPT ![e] = [r EXCEPT
                                    !.resp = Append(@, Response(e, "ACK", "accept")),
                                    !.received_data = @ \o chunk_data,
                                    !.receive_sequence = next_receive_sequence(@),
                                    !.pc = IF ~known \/ last THEN "ret" ELSE "hdr",
                                    !.ret = IF ~known THEN "raised"
                                            ELSE IF last THEN "data" ELSE "none"]]
                       /\ client_sequences' =
                              IF known
                              THEN [client_sequences EXCEPT
                                       ![client_ip(e)].receive =
                                           next_receive_sequence(r.receive_sequence)]
                              ELSE client_sequences
    /\ UNCHANGED <<broken, hs, tx, hc, peer_frames, config, server, call>>

(***************************************************************************)
(* send_data_with_retries (lines 331-432).  tx[e].log is the history of    *)
(* delivery attempts of the current chunk: the position of the chunk in    *)
(* the payload, the retry index, the delay slept before the attempt        *)
(* (milliseconds), the frame and whether it was written.  tx[e].acked      *)
(* lists the chunks the loop has moved past, each with the response header *)
(* that was read for it, and tx[e].written the payload positions of the    *)
(* chunks put on the connection so far.                                    *)
(***************************************************************************)
TxOff == [pc |-> "off", data |-> <<>>, max_retries |-> 0, send_sequence |-> 0,
          total_sent |-> 0, current_chunk_size |-> 0, packet_type |-> 0, chunk |-> <<>>,
          header |-> <<>>, sequence_bytes |-> <<>>, retry |-> 0, chunk_sent |-> FALSE,
          ret |-> "none", log |-> <<>>, acked |-> <<>>, written |-> {}]
TxCall(data, max_retries) == [TxOff EXCEPT !.pc = "start", !.data = data,
                                           !.max_retries = max_retries]

RECURSIVE Pow2(_)
Pow2(n) == IF n = 0 THEN 1 ELSE 2 * Pow2(n - 1)

\* mutant: the exponent starts at 0 for the first retry
retry_delay_from_base(retry) == Min(100 * Pow2(retry - 1), 2000)
\* line 379, in milliseconds: min(0.1 * (2 ** retry), 2.0)
retry_delay(retry) == Min(100 * Pow2(retry), 2000)

\* mutant: one attempt too many before giving up
TxContinue_one_more(t) ==
    IF t.retry < t.max_retries
    THEN [t EXCEPT !.retry = @ + 1, !.pc = "send"]
    ELSE [t EXCEPT !.pc = "ret", !.ret = "False"]
\* "continue" in the for loop of line 377: the next retry, or the end of the loop
\* with chunk_sent still False (lines 418-420)
TxContinue(t) ==
    IF t.retry + 1 < t.max_retries
    THEN [t EXCEPT !.retry = @ + 1, !.pc = "send"]
    ELSE [t EXCEPT !.pc = "ret", !.ret = "False"]

\* lines 336-351
send_data_start(e) ==
    /\ tx[e].pc = "start"
    /\ client_sequences' = IF client_sequences[client_ip(e)].present THEN client_sequences
                           ELSE [client_sequences EXCEPT ![client_ip(e)] = Session(0, 0)]
    /\ tx' = [tx EXCEPT ![e] = [@ EXCEPT !.pc = "chunk",
                                         !.send_sequence =
                                             client_sequences'[client_ip(e)].send,
                                         !.total_sent = 0]]
    /\ UNCHANGED <<wire, broken, hs, rx, hc, rdpos, peer_frames, config, server, call>>

\* mutant: the chunk that ends exactly at the end of the payload is not the last
last_chunk_strict(total_sent, current_chunk_size, data_length) ==
    total_sent + current_chunk_size > data_length
\* line 357
last_chunk(total_sent, current_chunk_size, data_length) ==
    total_sent + current_chunk_size >= data_length

\* mutant: every response that is not a Nack counts as an acknowledgment
is_ack_unless_nack(ack_info) == ack_info.type # PACKET_TYPE_NACK
\* line 407
is_ack(ack_info) == ack_info.type = PACKET_TYPE_ACK

\* mutant: the chunk leaves room for the header
packet_chunk_size_less_header == PACKET_MAX_SIZE - PACKET_HEADER_SIZE
\* line 345: chunk_size
packet_chunk_size == PACKET_MAX_SIZE

\* lines 354-377: the loop test and the preparation of one chunk
send_data_chunk(e) ==
    LET t == tx[e]
        data_length == Len(t.data)
        remaining == data_length - t.total_sent
        current_chunk_size == Min(remaining, packet_chunk_size)
        is_last_chunk == last_chunk(t.total_sent, current_chunk_size, data_length)
        packet_type == IF is_last_chunk THEN PACKET_TYPE_DATA_END ELSE PACKET_TYPE_DATA
        chunk == SubSeq(t.data, t.total_sent + 1, t.total_sent + current_chunk_size)
        checksum == calculate_checksum(chunk)
        header == build_packet_header(current_chunk_size, packet_type, checksum)
        prepared == [t EXCEPT !.current_chunk_size = current_chunk_size,
                              !.packet_type = packet_type, !.chunk = chunk,
                              !.header = header, !.sequence_bytes = pack_H(t.send_sequence),
                              !.retry = 0, !.chunk_sent = FALSE, !.log = <<>>]
    IN
    /\ t.pc = "chunk"
    /\ tx' = [tx EXCEPT ![e] =
                 IF ~(t.total_sent < data_length)
                 THEN [t EXCEPT !.pc = "ret", !.ret = "True"]
                 ELSE IF t.send_sequence > 65535
                 THEN \* struct.pack(">H", ...) raises struct.error outside the try
                      [t EXCEPT !.pc = "ret", !.ret = "raised"]
                 ELSE IF t.max_retries > 0
                 THEN [prepared EXCEPT !.pc = "send"]
                 ELSE [prepared EXCEPT !.pc = "ret", !.ret = "False"]]
    /\ UNCHANGED <<wire, broken, client_sequences, hs, rx, hc, rdpos, peer_frames, config, server, call>>

\* mutant: each retry takes the next sequence number
sendall_frame_renumbered(t) == t.header \o pack_H(t.send_sequence + t.retry) \o t.chunk
\* lines 384-391: sendall(header), sendall(sequence_bytes), sendall(chunk)
sendall_frame(t) == t.header \o t.sequence_bytes \o t.chunk

\* lines 378-391: the backoff sleep and the three sendall calls of one attempt
send_data_attempt(e) ==
    LET t == tx[e]
        frame == sendall_frame(t)
        entry == [pos |-> t.total_sent, retry |-> t.retry,
                  delay |-> IF t.retry > 0 THEN retry_delay(t.retry) ELSE 0,
                  frame |-> frame, seq |-> t.send_sequence, wrote |-> ~broken[e]]
        logged == [t EXCEPT !.log = Append(@, entry),
                            !.written = IF broken[e] THEN @ ELSE @ \cup {t.total_sent}]
    IN
    /\ t.pc = "send"
    /\ Transfer(e, 0, frame)
    /\ tx' = [tx EXCEPT ![e] = IF broken[e] THEN TxContinue(logged)
                               ELSE [logged EXCEPT !.pc = "wait"]]
    /\ UNCHANGED <<broken, client_sequences, hs, rx, hc, peer_frames, config, server, call>>

\* mutant: the sequence number advances by two
next_send_sequence_by_two(send_sequence) == send_sequence + 2
\* line 424: send_sequence += 1
next_send_sequence(send_sequence) == send_sequence + 1

\* lines 393-425: the wait for the response and, on Ack, the counter update
send_data_response(e, short) ==
    LET t == tx[e]
        ack_header == IF short THEN <<>> ELSE Take(wire[e], PACKET_HEADER_SIZE)
        ack_info == parse_packet_header(ack_header)
        acked == ~short /\ ack_info.valid /\ is_ack(ack_info)
        \* line 425 raises KeyError when the entry has been deleted
        known == client_sequences[client_ip(e)].present
    IN
    /\ t.pc = "wait"
    /\ short <=> Avail(e) < PACKET_HEADER_SIZE
    /\ wire' = [wire EXCEPT ![e] = Drop(@, IF short THEN Avail(e) ELSE PACKET_HEADER_SIZE)]
    /\ tx' = [tx EXCEPT ![e] =
                 IF acked
                 THEN [t EXCEPT !.chunk_sent = TRUE,
                                !.total_sent = @ + t.current_chunk_size,
                                !.send_sequence = next_send_sequence(@),
                                !.acked = Append(@, [pos |-> t.total_sent,
                                                     seq |-> t.send_sequence,
                                                     type |-> t.packet_type,
                                                     chunk |-> t.chunk,
                                                     response |-> ack_header]),
                                !.pc = IF known THEN "chunk" ELSE "ret",
                                !.ret = IF known THEN "none" ELSE "raised"]
                 ELSE TxContinue(t)]
    /\ client_sequences' = IF acked /\ known
                           THEN [client_sequences EXCEPT
                                    ![client_ip(e)].send =
                                        next_send_sequence(t.send_sequence)]
                           ELSE client_sequences
    /\ UNCHANGED <<broken, hs, rx, hc, rdpos, peer_frames, config, server, call>>

(***************************************************************************)
(* handle_handshake (lines 159-222), one action per blocking call.         *)
(* hs[e].acks is the history of send_ack calls: the header and whether it  *)
(* was written.                                                            *)
(***************************************************************************)
HsOff == [pc |-> "off", header_info |-> NoHeader, handshake_data |-> <<>>,
          ret |-> "none", why |-> "none", acks |-> <<>>]
HsCall == [HsOff EXCEPT !.pc = "hdr"]
expected_magic == <<165, 90, 178, 43>>

\* mutant: the counters start at 1
new_session_from_one == Session(1, 1)
\* lines 200-203
new_session == Session(0, 0)

\* line 200: client_sequences[client_ip] = {...}
store_session(sessions, key, session) == [sessions EXCEPT ![key] = session]

\* mutant: only the first two magic bytes are compared
magic_mismatch_prefix(handshake_data) == Take(handshake_data, 2) # Take(expected_magic, 2)
\* line 195
magic_mismatch(handshake_data) == handshake_data # expected_magic

HsFail(h, why) == [h EXCEPT !.pc = "ret", !.ret = "False", !.why = why]

\* lines 164-176
handle_handshake_header(e, short) ==
    /\ hs[e].pc = "hdr"
    /\ short <=> Avail(e) < PACKET_HEADER_SIZE
    /\ Transfer(e, IF short THEN Avail(e) ELSE PACKET_HEADER_SIZE, <<>>)
    /\ LET header_info == parse_packet_header(Take(wire[e], PACKET_HEADER_SIZE))
       IN hs' = [hs EXCEPT ![e] =
                   IF short THEN HsFail(@, "read")
                   ELSE IF ~header_info.valid \/ header_info.type # PACKET_TYPE_HANDSHAKE
                   THEN HsFail([@ EXCEPT !.header_info = header_info], "header")
                   ELSE [@ EXCEPT !.header_info = header_info, !.pc = "data"]]
    /\ UNCHANGED <<broken, client_sequences, rx, tx, hc, peer_frames, config, server, call>>

\* lines 178-203
handle_handshake_data(e, short) ==
    LET h == hs[e]
        length == h.header_info.length
        handshake_data == Take(wire[e], LengthVal(length))
        actual_checksum == calculate_checksum(handshake_data)
        ok == /\ ~short
              /\ handshake_data # <<>>
              /\ actual_checksum = h.header_info.checksum
              /\ ~magic_mismatch(handshake_data)
    IN
    /\ h.pc = "data"
    /\ short <=> LengthGT(length, Avail(e))
    /\ Transfer(e, IF short THEN Avail(e) ELSE LengthVal(length), <<>>)
    /\ hs' = [hs EXCEPT ![e] =
                 IF short \/ handshake_data = <<>> THEN HsFail(h, "read")
                 ELSE IF actual_checksum # h.header_info.checksum
                 THEN HsFail([h EXCEPT !.handshake_data = handshake_data], "checksum")
                 ELSE IF magic_mismatch(handshake_data)
                 THEN HsFail([h EXCEPT !.handshake_data = handshake_data], "magic")
                 ELSE [h EXCEPT !.handshake_data = handshake_data, !.pc = "ack"]]
    /\ client_sequences' = IF ok THEN store_session(client_sequences, client_ip(e), new_session)
                           ELSE client_sequences
    /\ UNCHANGED <<broken, rx, tx, hc, peer_frames, config, server, call>>

\* lines 205-218
handle_handshake_ack(e) ==
    /\ hs[e].pc = "ack"
    /\ Transfer(e, 0, AckHeader)
    /\ hs' = [hs EXCEPT ![e] =
                 IF send_ack(e)
                 THEN [@ EXCEPT !.acks = Append(@, [header |-> AckHeader, ok |-> TRUE]),
                                !.pc = "ret", !.ret = "True"]
                 ELSE HsFail([@ EXCEPT !.acks = Append(@, [header |-> AckHeader,
                                                           ok |-> FALSE])], "ack")]
    /\ UNCHANGED <<broken, client_sequences, rx, tx, hc, peer_frames, config, server, call>>

(***************************************************************************)
(* Audio container validation and repair (lines 523-705)                   *)
(***************************************************************************)
RIFF == <<82, 73, 70, 70>>
WAVE == <<87, 65, 86, 69>>
FMT == <<102, 109, 116, 32>>
DATA == <<100, 97, 116, 97>>

\* mutant: the slice takes one byte more, s[i:j+1]
Slice_through_end(s, i, j) == SubSeq(s, i + 1, Min(j + 1, Len(s)))
\* Python's s[i:j]
Slice(s, i, j) == SubSeq(s, i + 1, Min(j, Len(s)))
\* struct "<H" and "<I"
pack_le16(n) == <<n % 256, (n \div 256) % 256>>
pack_le32(n) == <<n % 256, (n \div 256) % 256, (n \div 65536) % 256, (n \div 16777216) % 256>>

verify_wav_format(wav_bytes) ==
    IF Len(wav_bytes) < 44 THEN FALSE
    ELSE IF Slice(wav_bytes, 0, 4) # RIFF THEN FALSE
    ELSE IF Slice(wav_bytes, 8, 12) # WAVE THEN FALSE
    ELSE IF Slice(wav_bytes, 12, 16) # FMT THEN FALSE
    ELSE IF Slice(wav_bytes, 36, 40) # DATA THEN FALSE
    ELSE TRUE

\* mutant: the data size counts whole frames only
create_wav_from_pcm_whole_frames(pcm_data, sample_rate, channels, sample_width) ==
    LET data_size == (Len(pcm_data) \div (channels * sample_width)) * channels * sample_width
    IN RIFF \o pack_le32(36 + data_size) \o WAVE
       \o FMT \o pack_le32(16) \o pack_le16(1) \o pack_le16(channels)
       \o pack_le32(sample_rate) \o pack_le32(channels * sample_rate * sample_width)
       \o pack_le16(channels * sample_width) \o pack_le16(sample_width * 8)
       \o DATA \o pack_le32(data_size) \o pcm_data
\* the 44-byte header written by the wave module for PCM data of data_size bytes
create_wav_from_pcm(pcm_data, sample_rate, channels, sample_width) ==
    RIFF \o pack_le32(36 + Len(pcm_data)) \o WAVE
    \o FMT \o pack_le32(16) \o pack_le16(1) \o pack_le16(channels)
    \o pack_le32(sample_rate) \o pack_le32(channels * sample_rate * sample_width)
    \o pack_le16(channels * sample_width) \o pack_le16(sample_width * 8)
    \o DATA \o pack_le32(Len(pcm_data)) \o pcm_data

\* mutant: the zero-filled buffer of line 606 is not filled with the input
repair_wav_file_without_copy(corrupted_wav) ==
    IF Len(corrupted_wav) < 44
    THEN create_wav_from_pcm(corrupted_wav, 16000, 1, 2)
    ELSE LET data_size == Len(corrupted_wav) - 44
         IN RIFF \o pack_le32(Len(corrupted_wav) - 8) \o WAVE
            \o FMT \o pack_le32(16) \o pack_le16(1) \o pack_le16(1)
            \o pack_le32(16000) \o pack_le32(16000 * 1 * 2)
            \o pack_le16(1 * 2) \o pack_le16(16)
            \o DATA \o pack_le32(data_size) \o [i \in 1..data_size |-> 0]
\* lines 596-658
repair_wav_file(corrupted_wav) ==
    IF Len(corrupted_wav) < 44
    THEN create_wav_from_pcm(corrupted_wav, 16000, 1, 2)
    ELSE LET data_size == Len(corrupted_wav) - 44
         IN RIFF \o pack_le32(Len(corrupted_wav) - 8) \o WAVE
            \o FMT \o pack_le32(16) \o pack_le16(1) \o pack_le16(1)
            \o pack_le32(16000) \o pack_le32(16000 * 1 * 2)
            \o pack_le16(1 * 2) \o pack_le16(16)
            \o DATA \o pack_le32(data_size) \o Slice(corrupted_wav, 44, Len(corrupted_wav))

\* mutant: no early return, a container is always rewritten
ensure_valid_wav_format_rewrites(audio_data) ==
    IF ~(Len(audio_data) >= 12
         /\ (Slice(audio_data, 0, 4) = RIFF \/ Slice(audio_data, 8, 12) = WAVE))
    THEN create_wav_from_pcm(audio_data, 16000, 1, 2)
    ELSE repair_wav_file(audio_data)
\* lines 545-573
ensure_valid_wav_format(audio_data) ==
    IF Len(audio_data) >= 44 /\ Slice(audio_data, 0, 4) = RIFF
                            /\ Slice(audio_data, 8, 12) = WAVE
    THEN audio_data
    ELSE LET is_likely_pcm ==
                 ~(Len(audio_data) >= 12
                   /\ (Slice(audio_data, 0, 4) = RIFF \/ Slice(audio_data, 8, 12) = WAVE))
         IN IF is_likely_pcm THEN create_wav_from_pcm(audio_data, 16000, 1, 2)
            ELSE repair_wav_file(audio_data)

process_audio(wav_bytes) ==
    LET is_valid_wav == Len(wav_bytes) >= 44 /\ Slice(wav_bytes, 0, 4) = RIFF
                                            /\ Slice(wav_bytes, 8, 12) = WAVE
    IN IF ~is_valid_wav THEN ensure_valid_wav_format(wav_bytes) ELSE wav_bytes

make_silent_wav(sr, ms) ==
    LET n == (sr * ms) \div 1000
        pcm == [i \in 1..(2 * n) |-> 0]
        subchunk2_size == Len(pcm)
        chunk_size == 36 + subchunk2_size
    IN RIFF \o pack_le32(chunk_size) \o WAVE
       \o FMT \o pack_le32(16) \o pack_le16(1) \o pack_le16(1) \o pack_le32(sr)
       \o pack_le32(sr * 2) \o pack_le16(2) \o pack_le16(16)
       \o DATA \o pack_le32(subchunk2_size) \o pcm

(***************************************************************************)
(* handle_connection_improved (lines 808-903).  The handler calls the      *)
(* handshake, the receive loop and the send loop by activating them and    *)
(* resumes when they have returned.                                        *)
(***************************************************************************)
HcOff == [pc |-> "off", received_data |-> <<>>, selected |-> <<>>, reply_bytes |-> <<>>,
          mode_str |-> "",
          exit |-> "none", saved |-> FALSE, transcribed |-> FALSE, closed |-> FALSE]
HcCall == [HcOff EXCEPT !.pc = "start"]

\* the sample count of the fallback reply is scaled down (250 ms in the source)
SILENCE_MS == 1

\* lines 813-818; setsockopt raises on a connection that is already reset
handle_connection_start(e, sockopt_ok) ==
    /\ hc[e].pc = "start"
    /\ IF sockopt_ok
       THEN /\ hc' = [hc EXCEPT ![e].pc = "handshake"]
            /\ hs' = [hs EXCEPT ![e] = HsCall]
       ELSE /\ hc' = [hc EXCEPT ![e].pc = "finally", ![e].exit = "exception"]
            /\ UNCHANGED hs
    /\ UNCHANGED <<wire, broken, client_sequences, rx, tx, rdpos, peer_frames, config, server, call>>

\* mutant: the result of the handshake is not looked at
handshake_passed_ignored(ret) == TRUE
\* line 818: if not handle_handshake(conn, addr): return
handshake_passed(ret) == ret = "True"

\* lines 818-825
handle_connection_handshake(e) ==
    /\ hc[e].pc = "handshake"
    /\ hs[e].pc = "ret"
    /\ IF handshake_passed(hs[e].ret)
       THEN /\ hc' = [hc EXCEPT ![e].pc = "receive"]
            /\ rx' = [rx EXCEPT ![e] = RxCall(DEFAULT_MAX_SIZE)]
       ELSE /\ hc' = [hc EXCEPT ![e].pc = "finally", ![e].exit = "handshake"]
            /\ UNCHANGED rx
    /\ UNCHANGED <<wire, broken, client_sequences, hs, tx, rdpos, peer_frames, config, server, call>>

\* lines 825-842; writing the inbox file raises when the disk fails
handle_connection_receive(e, disk_ok) ==
    /\ hc[e].pc = "receive"
    /\ rx[e].pc = "ret"
    /\ hc' = [hc EXCEPT ![e] =
                 IF rx[e].ret = "None"
                 THEN [@ EXCEPT !.pc = "finally", !.exit = "receive"]
                 ELSE IF rx[e].ret = "raised"
                 THEN [@ EXCEPT !.pc = "finally", !.exit = "exception"]
                 ELSE IF ~disk_ok
                 THEN [@ EXCEPT !.pc = "finally", !.exit = "exception",
                                !.received_data = rx[e].received_data]
                 ELSE [@ EXCEPT !.pc = "reply", !.saved = TRUE,
                                !.received_data = rx[e].received_data]]
    /\ UNCHANGED <<wire, broken, client_sequences, hs, rx, tx, rdpos, peer_frames, config, server, call>>

\* mutant: the stock reply file is preferred to the echo
select_reply_file_first(received_data) ==
    IF config.reply_exists THEN config.reply_wav
    ELSE IF config.ECHO_MODE THEN process_audio(received_data)
    ELSE make_silent_wav(16000, SILENCE_MS)
\* lines 860-871: reply_bytes before the outbound validation
select_reply(received_data) ==
    IF config.ECHO_MODE THEN process_audio(received_data)
    ELSE IF config.reply_exists THEN config.reply_wav
    ELSE make_silent_wav(16000, SILENCE_MS)

\* lines 844-880: validation, transcription (transcribe_wav_bytes catches its
\* own exceptions), reply selection, validation of the reply
handle_connection_reply(e) ==
    LET received_data == IF ~verify_wav_format(hc[e].received_data)
                         THEN ensure_valid_wav_format(hc[e].received_data)
                         ELSE hc[e].received_data
        selected == select_reply(received_data)
        mode_str == IF config.ECHO_MODE THEN "ECHO"
                    ELSE IF config.reply_exists THEN "REPLY" ELSE "SILENT"
        reply_bytes == IF ~verify_wav_format(selected)
                       THEN ensure_valid_wav_format(selected) ELSE selected
    IN
    /\ hc[e].pc = "reply"
    /\ hc' = [hc EXCEPT ![e] = [@ EXCEPT !.pc = "send", !.received_data = received_data,
                                         !.transcribed = TRUE,
                                         !.selected = selected,
                                         !.reply_bytes = reply_bytes,
                                         !.mode_str = mode_str]]
    /\ tx' = [tx EXCEPT ![e] = TxCall(reply_bytes, DEFAULT_MAX_RETRIES)]
    /\ UNCHANGED <<wire, broken, client_sequences, hs, rx, rdpos, peer_frames, config, server, call>>

\* lines 880-893
handle_connection_send(e) ==
    /\ hc[e].pc = "send"
    /\ tx[e].pc = "ret"
    /\ hc' = [hc EXCEPT ![e] = [@ EXCEPT !.pc = "finally",
                 !.exit = IF tx[e].ret = "True" THEN "success"
                          ELSE IF tx[e].ret = "False" THEN "send" ELSE "exception"]]
    /\ UNCHANGED <<wire, broken, client_sequences, hs, rx, tx, rdpos, peer_frames, config, server, call>>

\* mutant: the entry is dropped only after a completed exchange
release_session_on_success(sessions, e) ==
    IF sessions[client_ip(e)].present /\ hc[e].exit = "success"
    THEN [sessions EXCEPT ![client_ip(e)] = NoSession] ELSE sessions
\* lines 896-897
release_session(sessions, e) ==
    IF sessions[client_ip(e)].present THEN [sessions EXCEPT ![client_ip(e)] = NoSession]
    ELSE sessions

\* lines 894-903
handle_connection_finally(e) ==
    /\ hc[e].pc = "finally"
    /\ client_sequences' = release_session(client_sequences, e)
    /\ hc' = [hc EXCEPT ![e] = [@ EXCEPT !.pc = "closed", !.closed = TRUE]]
    /\ UNCHANGED <<wire, broken, hs, rx, tx, rdpos, peer_frames, config, server, call>>

(***************************************************************************)
(* The environment: a peer that writes frames and response headers of its  *)
(* choice, and resets the connection.                                      *)
(***************************************************************************)
Frame(length, version, type, checksum, seq, payload) ==
    [length |-> length, version |-> version, type |-> type, checksum |-> checksum,
     seq |-> seq, payload |-> payload]
GoodFrame(type, seq, payload) ==
    Frame(Len(payload), PROTOCOL_VERSION, type, calculate_checksum(payload), seq, payload)
BadChecksum(f) == [f EXCEPT !.checksum = (@ + 1) % 65536]
BadVersion(f) == [f EXCEPT !.version = PROTOCOL_VERSION + 1]
FrameHeader(f) ==
    pack_I(U32(f.length)) \o <<f.version, f.type>> \o pack_H(f.checksum)
FrameBytes(f) == FrameHeader(f) \o pack_H(f.seq) \o f.payload

peer_send_frame(e, f) ==
    /\ Peer(e) \in config.scripted
    /\ wire' = [wire EXCEPT ![e] = @ \o FrameBytes(f)]
    /\ peer_frames' = [peer_frames EXCEPT ![e] =
                          Append(@, [off |-> rdpos[e] + Len(wire[e]), frame |-> f])]
    /\ UNCHANGED <<broken, client_sequences, hs, rx, tx, hc, rdpos, config, server, call>>

\* the peer answers a delivery attempt with one 8-byte header
peer_respond(e, header) ==
    /\ Peer(e) \in config.scripted
    /\ tx[e].pc = "wait"
    /\ wire[e] = <<>>
    /\ wire' = [wire EXCEPT ![e] = header]
    /\ UNCHANGED <<broken, client_sequences, hs, rx, tx, hc, rdpos, peer_frames, config, server, call>>

peer_break(e) ==
    /\ Peer(e) \in config.scripted
    /\ ~broken[e]
    /\ broken' = [broken EXCEPT ![e] = TRUE]
    /\ UNCHANGED <<wire, client_sequences, hs, rx, tx, hc, rdpos, peer_frames, config, server, call>>

(***************************************************************************)
(* Initial states and bounds                                               *)
(***************************************************************************)
MaxFrames == 2     \* frames the scripted peer writes to a receive loop
MaxSeq == 2        \* largest sequence number the scripted peer uses

\* the state of main_improved inside "while True" (lines 1010-1015)
Listening == [pc |-> "accept"]

NoCall == [fn |-> "none", pc |-> "off", arg |-> <<>>, result |-> <<>>, again |-> <<>>]
Call(fn, arg) == [NoCall EXCEPT !.fn = fn, !.pc = "call", !.arg = arg]

Config(scripted, echo, reply_exists, reply_wav, opening) ==
    [scripted |-> scripted, ECHO_MODE |-> echo, reply_exists |-> reply_exists,
     reply_wav |-> reply_wav, opening |-> opening, addr |-> [e \in Ends |-> e],
     corrupt |-> {}, lose |-> {}, flip |-> {}]

Start(sessions, handshakes, receivers, senders, handlers, input) ==
    /\ wire = [e \in Ends |-> IF e = "a" THEN input ELSE <<>>]
    /\ broken = [e \in Ends |-> FALSE]
    /\ client_sequences = sessions
    /\ hs = handshakes
    /\ rx = receivers
    /\ tx = senders
    /\ hc = handlers
    /\ rdpos = [e \in Ends |-> 0]
    /\ peer_frames = [e \in Ends |-> <<>>]
    /\ server = Listening
    /\ call = NoCall

(***************************************************************************)
(* SpecRecv: the receive loop of endpoint "a" against a scripted peer.     *)
(***************************************************************************)
Oversize == [i \in 1..(PACKET_MAX_SIZE + 1) |-> 7]
RecvPayloads == {<<5>>, <<5, 6>>}
RecvFrames ==
    {GoodFrame(t, q, p) : t \in {PACKET_TYPE_DATA, PACKET_TYPE_DATA_END},
                          q \in 0..MaxSeq, p \in RecvPayloads}
    \cup {BadChecksum(GoodFrame(PACKET_TYPE_DATA, q, p)) : q \in 0..MaxSeq, p \in RecvPayloads}
    \cup {BadVersion(GoodFrame(PACKET_TYPE_DATA_END, 0, <<5>>))}
    \cup {GoodFrame(PACKET_TYPE_DATA, q, Oversize) : q \in 0..1}
    \cup {GoodFrame(PACKET_TYPE_DATA_END, 0, <<>>)}
    \cup {GoodFrame(PACKET_TYPE_ACK, q, <<5>>) : q \in 0..1}
RecvMaxSizes == {3, DEFAULT_MAX_SIZE}

InitRecv ==
    \E max_size \in RecvMaxSizes, session \in {NoSession, Session(0, 0)} :
        /\ Start([e \in Ends |-> IF e = "a" THEN session ELSE NoSession],
                 [e \in Ends |-> HsOff],
                 [e \in Ends |-> IF e = "a" THEN RxCall(max_size) ELSE RxOff],
                 [e \in Ends |-> TxOff], [e \in Ends |-> HcOff], <<>>)
        /\ config = Config({"b"}, TRUE, FALSE, <<>>, <<>>)

RecvRunning(e) == rx[e].pc \in {"start", "hdr", "seq", "chunk"}

RecvPeerSends ==
    \E f \in RecvFrames :
        /\ RecvRunning("a")
        /\ Len(peer_frames["a"]) < MaxFrames
        /\ peer_send_frame("a", f)
RecvPeerBreaks == RecvRunning("a") /\ peer_break("a")
RecvStart == receive_data_start("a")
RecvHeader == \E short \in BOOLEAN : receive_data_header("a", short)
RecvSeq == \E short \in BOOLEAN : receive_data_seq("a", short)
RecvChunk == \E short \in BOOLEAN : receive_data_chunk("a", short)

NextRecv ==
    \/ RecvStart
    \/ RecvHeader
    \/ RecvSeq
    \/ RecvChunk
    \/ RecvPeerSends
    \/ RecvPeerBreaks

SpecRecv == InitRecv /\ [][NextRecv]_vars

(***************************************************************************)
(* Properties of the receive loop (SpecRecv)                               *)
(***************************************************************************)
RxFrames == peer_frames["a"]
RxResp == rx["a"].resp
\* the response r answers the peer frame pf: the header read started at its first byte
Answers(r, pf) == r.off = pf.off
WellFormedData(f) ==
    /\ f.version = PROTOCOL_VERSION
    /\ f.type \in {PACKET_TYPE_DATA, PACKET_TYPE_DATA_END}
    /\ f.length = Len(f.payload)
    /\ f.length >= 1 /\ f.length <= PACKET_MAX_SIZE
    /\ f.checksum = calculate_checksum(f.payload)

C2_Defective(f, expected) ==
    \/ f.seq # expected
    \/ calculate_checksum(f.payload) # f.checksum
    \/ f.length > PACKET_MAX_SIZE

\* C2: a frame whose sequence number is not the expected one, whose checksum
\* does not match or whose declared length exceeds PACKET_MAX_SIZE is answered
\* with a Nack, never an Ack, and the step that answers it leaves
\* receive_sequence (local and in the session table) unchanged.
C2_NackWithoutAdvance ==
    [][ Len(rx'["a"].resp) > Len(rx["a"].resp) =>
          LET r == rx'["a"].resp[Len(rx'["a"].resp)]
          IN \A i \in 1..Len(RxFrames) :
                (Answers(r, RxFrames[i]) /\ C2_Defective(RxFrames[i].frame, r.expected))
                => /\ r.kind = "NACK"
                   /\ rx'["a"].receive_sequence = rx["a"].receive_sequence
                   /\ client_sequences'["a"] = client_sequences["a"] ]_vars

\* a checksum failure answered with Nack after one frame had been accepted
C2_Witness ==
    \E i \in 1..Len(RxFrames), j \in 1..Len(RxResp) :
        /\ Answers(RxResp[j], RxFrames[i])
        /\ calculate_checksum(RxFrames[i].frame.payload) # RxFrames[i].frame.checksum
        /\ RxResp[j].kind = "NACK" /\ RxResp[j].ok
        /\ RxResp[j].expected = 1
        /\ rx["a"].receive_sequence = 1

\* C3: after a Nack for a sequence mismatch the receiver resumes reading at
\* the start of the peer's next frame: when that frame is well-formed, carries
\* the expected sequence number and fits, it is acknowledged and its payload
\* is appended after what had been accumulated.
C3_ResumesAtNextFrame ==
    \A i \in 1..(Len(RxFrames) - 1), j \in 1..Len(RxResp) :
        LET f == RxFrames[i]
            g == RxFrames[i + 1]
            r == RxResp[j]
        IN (/\ Answers(r, f) /\ r.why = "seq"
            /\ WellFormedData(g.frame) /\ g.frame.seq = r.expected
            /\ r.have + g.frame.length <= rx["a"].max_size
            /\ ~broken["a"]
            /\ rx["a"].pc = "ret")
           => \E k \in 1..Len(RxResp) :
                 /\ Answers(RxResp[k], g) /\ RxResp[k].kind = "ACK"
                 /\ SubSeq(rx["a"].received_data, r.have + 1, r.have + g.frame.length)
                        = g.frame.payload

\* C10: a frame whose declared length exceeds PACKET_MAX_SIZE, or would take
\* the accumulated total over max_size, is answered with Nack and ends the
\* call with no payload, nothing after its 8-byte header having been read;
\* the accumulated buffer never exceeds max_size.
C10_RejectsBeforeReading ==
    /\ Len(rx["a"].received_data) <= rx["a"].max_size
    /\ \A i \in 1..Len(RxFrames), j \in 1..Len(RxResp) :
          LET f == RxFrames[i].frame
              r == RxResp[j]
          IN (/\ Answers(r, RxFrames[i])
              /\ (f.length > PACKET_MAX_SIZE \/ r.have + f.length > rx["a"].max_size))
             => /\ r.kind = "NACK"
                /\ rx["a"].pc = "ret" /\ rx["a"].ret = "None"
                /\ rdpos["a"] = r.off + PACKET_HEADER_SIZE

\* a frame refused because it would take a non-empty buffer over max_size
C10_Witness ==
    /\ rx["a"].pc = "ret" /\ rx["a"].ret = "None"
    /\ rx["a"].received_data # <<>>
    /\ RxResp # <<>>
    /\ RxResp[Len(RxResp)].why = "total"
    /\ \E i \in 1..Len(RxFrames) :
          /\ Answers(RxResp[Len(RxResp)], RxFrames[i])
          /\ RxFrames[i].frame.length <= PACKET_MAX_SIZE
          /\ Len(rx["a"].received_data) + RxFrames[i].frame.length > rx["a"].max_size

(***************************************************************************)
(* SpecSend: the send loop of endpoint "a" against a scripted peer that    *)
(* answers each attempt with a header of its choice, or not at all.        *)
(***************************************************************************)
MaxChunks == 2     \* payloads of up to MaxChunks full chunks and a remainder
MaxRetries == 7    \* largest max_retries a caller passes

Payload(seed, n) == [i \in 1..n |-> (seed + 37 * i) % 256]
PayloadSizes == {k * PACKET_MAX_SIZE + r : k \in 0..MaxChunks, r \in {0, 1, PACKET_MAX_SIZE - 1}}
Payloads == {Payload(seed, n) : seed \in {0, 200}, n \in PayloadSizes}

ResponseHeaders ==
    {AckHeader, NackHeader,
     build_packet_header(0, PACKET_TYPE_DATA, 0),
     FrameHeader(BadVersion(GoodFrame(PACKET_TYPE_ACK, 0, <<>>)))}

InitSend ==
    \E data \in Payloads, max_retries \in 0..MaxRetries :
        /\ Start([e \in Ends |-> NoSession], [e \in Ends |-> HsOff], [e \in Ends |-> RxOff],
                 [e \in Ends |-> IF e = "a" THEN TxCall(data, max_retries) ELSE TxOff],
                 [e \in Ends |-> HcOff], <<>>)
        /\ config = Config({"b"}, TRUE, FALSE, <<>>, <<>>)

SendRunning(e) == tx[e].pc \in {"start", "chunk", "send", "wait"}

SendStart == send_data_start("a")
SendChunk == send_data_chunk("a")
SendAttempt == send_data_attempt("a")
SendResponse == \E short \in BOOLEAN : send_data_response("a", short)
SendPeerResponds == \E header \in ResponseHeaders : peer_respond("a", header)
SendPeerBreaks == SendRunning("a") /\ peer_break("a")

NextSend ==
    \/ SendStart
    \/ SendChunk
    \/ SendAttempt
    \/ SendResponse
    \/ SendPeerResponds
    \/ SendPeerBreaks

SpecSend == InitSend /\ [][NextSend]_vars

(***************************************************************************)
(* SpecXfer: the send loop of endpoint "a" drives the receive loop of      *)
(* endpoint "b" over a link without loss or corruption.  A read times out  *)
(* only when the other side has returned.                                  *)
(***************************************************************************)
InitXfer ==
    \E data \in Payloads :
        /\ Start([e \in Ends |-> Session(0, 0)], [e \in Ends |-> HsOff],
                 [e \in Ends |-> IF e = "b" THEN RxCall(DEFAULT_MAX_SIZE) ELSE RxOff],
                 [e \in Ends |-> IF e = "a" THEN TxCall(data, DEFAULT_MAX_RETRIES) ELSE TxOff],
                 [e \in Ends |-> HcOff], <<>>)
        /\ config = Config({}, TRUE, FALSE, <<>>, <<>>)

XferSendStart == send_data_start("a")
XferSendChunk == send_data_chunk("a")
XferSendAttempt == send_data_attempt("a")
XferSendResponse == send_data_response("a", FALSE)
XferSendTimeout == rx["b"].pc = "ret" /\ send_data_response("a", TRUE)
XferRecvStart == receive_data_start("b")
XferRecvHeader == receive_data_header("b", FALSE)
XferRecvSeq == receive_data_seq("b", FALSE)
XferRecvChunk == receive_data_chunk("b", FALSE)
XferRecvTimeout == tx["a"].pc = "ret" /\ receive_data_header("b", TRUE)

NextXfer ==
    \/ XferSendStart
    \/ XferSendChunk
    \/ XferSendAttempt
    \/ XferSendResponse
    \/ XferSendTimeout
    \/ XferRecvStart
    \/ XferRecvHeader
    \/ XferRecvSeq
    \/ XferRecvChunk
    \/ XferRecvTimeout

SpecXfer == InitXfer /\ [][NextXfer]_vars
\* both loops run on their own thread and every enabled step is eventually taken
FairSpecXfer == SpecXfer /\ WF_vars(NextXfer)

(***************************************************************************)
(* SpecHandshake: handle_handshake of endpoint "a" on an opening frame     *)
(* chosen by the peer, possibly followed by more bytes.                    *)
(***************************************************************************)
HandshakeFrame(payload) ==
    build_packet_header(Len(payload), PACKET_TYPE_HANDSHAKE, calculate_checksum(payload))
    \o payload
ValidHandshake == HandshakeFrame(expected_magic)
HandshakeInputs ==
    {ValidHandshake}
    \cup {[ValidHandshake EXCEPT ![p] = v] : p \in 1..Len(ValidHandshake), v \in Byte}
    \cup {Take(ValidHandshake, n) : n \in 0..Len(ValidHandshake)}
    \cup {HandshakeFrame(payload) :
             payload \in {<<165, 90, 178, 44>>, <<165, 90, 0, 0>>, <<165, 90>>,
                          <<165, 90, 178, 43, 0>>, <<>>, <<43, 178, 90, 165>>,
                          Oversize}}
TrailingFrames == {GoodFrame(PACKET_TYPE_DATA_END, 0, <<5>>)}

InitHandshake ==
    \E input \in HandshakeInputs :
        /\ Start([e \in Ends |-> NoSession],
                 [e \in Ends |-> IF e = "a" THEN HsCall ELSE HsOff],
                 [e \in Ends |-> RxOff], [e \in Ends |-> TxOff], [e \in Ends |-> HcOff],
                 input)
        /\ config = Config({"b"}, TRUE, FALSE, <<>>, input)

HandshakeRunning(e) == hs[e].pc \in {"hdr", "data", "ack"}

HsHeader == \E short \in BOOLEAN : handle_handshake_header("a", short)
HsData == \E short \in BOOLEAN : handle_handshake_data("a", short)
HsAck == handle_handshake_ack("a")
HsPeerSends ==
    \E f \in TrailingFrames :
        /\ HandshakeRunning("a")
        /\ peer_frames["a"] = <<>>
        /\ peer_send_frame("a", f)
HsPeerBreaks == HandshakeRunning("a") /\ peer_break("a")

NextHandshake ==
    \/ HsHeader
    \/ HsData
    \/ HsAck
    \/ HsPeerSends
    \/ HsPeerBreaks

SpecHandshake == InitHandshake /\ [][NextHandshake]_vars

\* the bytes the peer has put on the connection, from the first one
Stream ==
    config.opening
    \o (IF peer_frames["a"] = <<>> THEN <<>> ELSE FrameBytes(peer_frames["a"][1].frame))

\* C7: the handshake succeeds only on a frame with the fixed version, type
\* Handshake, a header checksum equal to the checksum of its payload and the
\* payload A5 5A B2 2B; a valid handshake frame with one byte changed fails.
C7_OnlyValidHandshake ==
    LET opening == config.opening
        changed == {p \in 1..Len(opening) : opening[p] # ValidHandshake[p]}
    IN /\ hs["a"].ret = "True" =>
            /\ Len(Stream) >= 12
            /\ SubSeq(Stream, 1, 4) = <<0, 0, 0, 4>>
            /\ Stream[5] = 1
            /\ Stream[6] = PACKET_TYPE_HANDSHAKE
            /\ SubSeq(Stream, 9, 12) = <<165, 90, 178, 43>>
            /\ Stream[7] * 256 + Stream[8] = calculate_checksum(SubSeq(Stream, 9, 12))
       /\ (/\ Len(opening) = Len(ValidHandshake)
           /\ Cardinality(changed) = 1
           /\ hs["a"].pc = "ret")
          => hs["a"].ret = "False"

\* a valid handshake accepted while the peer's first data frame was already on the wire
C7_Witness ==
    /\ hs["a"].pc = "ret" /\ hs["a"].ret = "True"
    /\ config.opening = ValidHandshake
    /\ peer_frames["a"] # <<>>
    /\ peer_frames["a"][1].off = Len(ValidHandshake)

(***************************************************************************)
(* Properties of the send loop (SpecSend)                                  *)
(***************************************************************************)
TxLog == tx["a"].log
TxReturned(ret) == tx["a"].pc = "ret" /\ tx["a"].ret = ret

\* C4: a chunk that is never acknowledged is attempted exactly max_retries
\* times: no further attempt is made, and failure is reported after the
\* max_retries-th attempt and not before.  Attempts are numbered 0, 1, ...
\* and all carry the same chunk.
C4_ExactlyMaxRetries ==
    LET t == tx["a"]
    IN /\ Len(t.log) <= t.max_retries
       /\ \A i \in 1..Len(t.log) :
             /\ t.log[i].retry = i - 1
             /\ t.log[i].pos = t.log[1].pos
             /\ t.log[i].frame = t.log[1].frame
       /\ t.pc \in {"send", "wait"} =>
             /\ t.retry < t.max_retries
             /\ Len(t.log) = IF t.pc = "send" THEN t.retry ELSE t.retry + 1
       /\ TxReturned("False") =>
             /\ Len(t.log) = t.max_retries
             /\ \A i \in 1..Len(t.log) : t.log[i].pos = t.total_sent

\* the second chunk given up after five attempts, one of them a write error
C4_Witness ==
    /\ TxReturned("False")
    /\ tx["a"].max_retries = 5
    /\ Len(TxLog) = 5
    /\ tx["a"].total_sent = PACKET_MAX_SIZE
    /\ \E i \in 1..Len(TxLog) : ~TxLog[i].wrote
    /\ TxLog[1].wrote

\* min(0.1 * 2^k, 2.0) seconds in milliseconds, k >= 1
C5_Expected(k) ==
    IF k = 1 THEN 200 ELSE IF k = 2 THEN 400 ELSE IF k = 3 THEN 800
    ELSE IF k = 4 THEN 1600 ELSE 2000

RECURSIVE ChunksUpTo(_, _)
ChunksUpTo(acked, n) == IF n = 0 THEN <<>> ELSE ChunksUpTo(acked, n - 1) \o acked[n].chunk

\* C6: True is returned only when every chunk of the payload was answered
\* with an Ack; when a chunk exhausts its retries, False is returned, no
\* chunk after the failed one has been written and send_sequence (local and
\* in the session table) still counts the acknowledged chunks only.
C6_NoPartialSuccess ==
    LET t == tx["a"]
    IN /\ TxReturned("True") =>
             /\ ChunksUpTo(t.acked, Len(t.acked)) = t.data
             /\ \A i \in 1..Len(t.acked) :
                   /\ Len(t.acked[i].response) = PACKET_HEADER_SIZE
                   /\ t.acked[i].response[5] = PROTOCOL_VERSION
                   /\ t.acked[i].response[6] = PACKET_TYPE_ACK
       /\ TxReturned("False") =>
             /\ t.total_sent < Len(t.data)
             /\ Len(ChunksUpTo(t.acked, Len(t.acked))) = t.total_sent
             /\ \A pos \in t.written : pos <= t.total_sent
             /\ t.send_sequence = Len(t.acked)
             /\ client_sequences["a"] = Session(Len(t.acked), 0)

\* the first chunk acknowledged, the second written and given up
C6_Witness ==
    /\ TxReturned("False")
    /\ Len(tx["a"].acked) = 1
    /\ tx["a"].written = {0, PACKET_MAX_SIZE}
    /\ Len(tx["a"].data) > 2 * PACKET_MAX_SIZE
    /\ tx["a"].send_sequence = 1

(***************************************************************************)
(* Properties of a transfer between two endpoints (FairSpecXfer)           *)
(***************************************************************************)
XferDelivered ==
    /\ tx["a"].pc = "ret" /\ tx["a"].ret = "True"
    /\ rx["b"].pc = "ret" /\ rx["b"].ret = "data"
    /\ rx["b"].received_data = tx["a"].data

\* C1 as stated: every non-empty payload is eventually delivered: the sender
\* returns True, the receiver returns, and what it returns is the payload.
C1_EveryPayloadDelivered ==
    <>[](Len(tx["a"].data) >= 1 => XferDelivered)

\* C1, amended: every non-empty payload that is not larger than the
\* receiver's max_size is eventually delivered: the sender returns True, the
\* receiver returns, and what it returns is byte-identical to the payload.
C1_PayloadWithinMaxSizeDelivered ==
    <>[]((Len(tx["a"].data) >= 1 /\ Len(tx["a"].data) <= rx["b"].max_size) => XferDelivered)

\* two full chunks and no remainder delivered
C1_Witness ==
    /\ XferDelivered
    /\ Len(tx["a"].data) = 2 * PACKET_MAX_SIZE
    /\ Len(tx["a"].acked) = 2

(***************************************************************************)
(* SpecConn: handle_connection_improved of endpoint "a" serving a peer     *)
(* that opens with bytes of its choice, then writes data frames, answers   *)
(* the reply as it likes, and may reset the connection at any time.        *)
(***************************************************************************)
WavOK == create_wav_from_pcm(<<1, 2>>, 16000, 1, 2)
\* a container that kept 'RIFF' and 'WAVE' and lost 'fmt ' and 'data'
WavDamaged == [WavOK EXCEPT ![13] = 0, ![37] = 0]
ConnOpenings ==
    {ValidHandshake,
     HandshakeFrame(<<165, 90, 178, 44>>),
     [ValidHandshake EXCEPT ![8] = 0],
     [ValidHandshake EXCEPT ![6] = PACKET_TYPE_DATA],
     [ValidHandshake EXCEPT ![5] = PROTOCOL_VERSION + 1],
     Take(ValidHandshake, 5),
     Take(ValidHandshake, 10)}
ConnFrames ==
    {GoodFrame(PACKET_TYPE_DATA_END, 0, <<1, 2>>),
     GoodFrame(PACKET_TYPE_DATA, 0, <<1, 2>>),
     GoodFrame(PACKET_TYPE_DATA_END, 1, <<3>>),
     GoodFrame(PACKET_TYPE_DATA_END, 0, WavOK),
     GoodFrame(PACKET_TYPE_DATA_END, 0, WavDamaged),
     BadChecksum(GoodFrame(PACKET_TYPE_DATA_END, 0, <<1, 2>>))}
ConnConfigs ==
    {Config({"b"}, TRUE, FALSE, <<>>, <<>>),
     Config({"b"}, FALSE, FALSE, <<>>, <<>>),
     Config({"b"}, FALSE, TRUE, WavOK, <<>>),
     Config({"b"}, FALSE, TRUE, <<9, 8, 7>>, <<>>),
     Config({"b"}, FALSE, TRUE, WavDamaged, <<>>),
     Config({"b"}, TRUE, TRUE, <<9, 8, 7>>, <<>>)}

InitConn ==
    \E input \in ConnOpenings, c \in ConnConfigs :
        /\ Start([e \in Ends |-> NoSession], [e \in Ends |-> HsOff], [e \in Ends |-> RxOff],
                 [e \in Ends |-> TxOff],
                 [e \in Ends |-> IF e = "a" THEN HcCall ELSE HcOff], input)
        /\ config = [c EXCEPT !.opening = input]

ConnRunning(e) == hc[e].pc \notin {"off", "closed"}

ConnStart == \E sockopt_ok \in BOOLEAN : handle_connection_start("a", sockopt_ok)
ConnHandshake == handle_connection_handshake("a")
ConnReceive == \E disk_ok \in BOOLEAN : handle_connection_receive("a", disk_ok)
ConnReply == handle_connection_reply("a")
ConnSend == handle_connection_send("a")
ConnFinally == handle_connection_finally("a")
ConnPeerSends ==
    \E f \in ConnFrames :
        /\ HandshakeRunning("a") \/ RecvRunning("a")
        /\ Len(peer_frames["a"]) < MaxFrames
        /\ peer_send_frame("a", f)
ConnPeerBreaks == ConnRunning("a") /\ peer_break("a")

NextConn ==
    \/ ConnStart
    \/ ConnHandshake
    \/ ConnReceive
    \/ ConnReply
    \/ ConnSend
    \/ ConnFinally
    \/ HsHeader
    \/ HsData
    \/ HsAck
    \/ RecvStart
    \/ RecvHeader
    \/ RecvSeq
    \/ RecvChunk
    \/ SendStart
    \/ SendChunk
    \/ SendAttempt
    \/ SendResponse
    \/ SendPeerResponds
    \/ ConnPeerSends
    \/ ConnPeerBreaks

SpecConn == InitConn /\ [][NextConn]_vars

(***************************************************************************)
(* Properties of the connection handler (SpecConn)                         *)
(***************************************************************************)
\* C8: when the handshake returns True the session exists with both counters
\* 0 and exactly one Ack header with length 0 has been written; when it
\* returns False after a bad type or version, a short read, a checksum
\* mismatch or a wrong magic it has written nothing, no Nack is ever sent,
\* and the handler goes to its cleanup without receiving, sending or
\* running the handshake again.
C8_HandshakeOutcome ==
    LET h == hs["a"]
    IN /\ (h.pc = "ret" /\ h.ret = "True") =>
             /\ h.acks = <<[header |-> <<0, 0, 0, 0, PROTOCOL_VERSION, PACKET_TYPE_ACK, 0, 0>>,
                            ok |-> TRUE]>>
             /\ hc["a"].pc = "handshake" => client_sequences["a"] = Session(0, 0)
       /\ (h.pc = "ret" /\ h.ret = "False") =>
             /\ h.why \in {"read", "header", "checksum", "magic"} => h.acks = <<>>
             /\ \A i \in 1..Len(h.acks) : ~h.acks[i].ok
             /\ rx["a"] = RxOff
             /\ tx["a"] = TxOff
             /\ hc["a"].pc \in {"handshake", "finally", "closed"}
             /\ hc["a"].pc # "handshake" => hc["a"].exit = "handshake"

\* the handshake has just returned True to the handler
C8_Witness ==
    /\ hs["a"].pc = "ret" /\ hs["a"].ret = "True"
    /\ hc["a"].pc = "handshake"
    /\ client_sequences["a"] = Session(0, 0)
    /\ Len(hs["a"].acks) = 1

\* C9: whatever the exit path, once the handler has terminated the client's
\* entry is absent from client_sequences and the connection is closed.
C9_CleanupOnEveryExit ==
    hc["a"].pc = "closed" =>
        /\ ~client_sequences["a"].present
        /\ hc["a"].closed
        /\ hc["a"].exit \in {"handshake", "receive", "send", "exception", "success"}

\* the handler has terminated after the reply could not be delivered, the
\* session holding the count of the frames it had accepted
C9_Witness ==
    /\ hc["a"].pc = "closed"
    /\ hc["a"].exit = "send"
    /\ rx["a"].receive_sequence >= 1
    /\ ~client_sequences["a"].present

(***************************************************************************)
(* More properties of the receive loop (SpecRecv)                          *)
(***************************************************************************)
\* C11: a data-frame header with a wrong protocol version is answered with
\* Nack and the receive loop goes on to read the next header (it does not
\* return).
C11_BadVersionNotFatal ==
    [][ Len(rx'["a"].resp) > Len(rx["a"].resp) =>
          LET r == rx'["a"].resp[Len(rx'["a"].resp)]
          IN \A i \in 1..Len(RxFrames) :
                (Answers(r, RxFrames[i]) /\ RxFrames[i].frame.version # PROTOCOL_VERSION)
                => /\ r.kind = "NACK"
                   /\ rx'["a"].pc = "hdr" ]_vars

(***************************************************************************)
(* SpecServer: the accept loop of main_improved (lines 1009-1021) and two  *)
(* connections, "a" and "b", each served by its own handler thread and     *)
(* each with a client of its own.  The session table is keyed by the       *)
(* client's address and port.  Two connections that are open at the same   *)
(* time differ in it, but a client whose connection has been reset (crash, *)
(* reboot, abortive close) can connect again from the same address and     *)
(* port while the handler thread of the reset connection is still running  *)
(* (it sleeps between retries, or has not yet touched the socket).         *)
(***************************************************************************)
\* the connection accepted as e can exist: every other connection with the
\* same client address and port is over at the TCP level
fresh_address(e) ==
    \A x \in Ends \ {e} :
        (client_ip(x) = client_ip(e) /\ hc[x].pc \notin {"off", "closed"}) => broken[x]

\* mutant: the handler runs in the thread of the accept loop
thread_start_joined(accepting) == [accepting EXCEPT !.pc = "join"]
\* line 1015: threading.Thread(...).start() returns and the loop goes on
thread_start(accepting) == accepting

\* lines 1011-1015: a connection is accepted and its handler thread started;
\* an exception of accept ends the loop (lines 1016-1021)
main_improved_accept(e, accept_ok) ==
    /\ server.pc = "accept"
    /\ hc[e].pc = "off"
    /\ fresh_address(e)
    /\ IF accept_ok
       THEN /\ hc' = [hc EXCEPT ![e] = HcCall]
            /\ server' = thread_start(server)
       ELSE /\ server' = [server EXCEPT !.pc = "exit"]
            /\ UNCHANGED hc
    /\ UNCHANGED <<wire, broken, client_sequences, hs, rx, tx, rdpos, peer_frames, config,
                   call>>

ServerOpenings == {ValidHandshake, [ValidHandshake EXCEPT ![8] = 0]}
ServerFrames ==
    {GoodFrame(PACKET_TYPE_DATA_END, 0, <<1, 2>>),
     GoodFrame(PACKET_TYPE_DATA_END, 1, <<3>>)}
ServerAddresses == {[e \in Ends |-> e], [e \in Ends |-> "a"]}

InitServer ==
    \E opening \in [Ends -> ServerOpenings], addr \in ServerAddresses :
        /\ wire = opening
        /\ broken = [e \in Ends |-> FALSE]
        /\ client_sequences = [e \in Ends |-> NoSession]
        /\ hs = [e \in Ends |-> HsOff]
        /\ rx = [e \in Ends |-> RxOff]
        /\ tx = [e \in Ends |-> TxOff]
        /\ hc = [e \in Ends |-> HcOff]
        /\ rdpos = [e \in Ends |-> 0]
        /\ peer_frames = [e \in Ends |-> <<>>]
        /\ server = Listening
        /\ call = NoCall
        /\ config = [Config(Ends, TRUE, FALSE, <<>>, <<>>) EXCEPT !.addr = addr]

ServerAccept == \E e \in Ends, accept_ok \in BOOLEAN : main_improved_accept(e, accept_ok)
ServerHandler ==
    \E e \in Ends :
        \/ \E sockopt_ok \in BOOLEAN : handle_connection_start(e, sockopt_ok)
        \/ handle_connection_handshake(e)
        \/ \E disk_ok \in BOOLEAN : handle_connection_receive(e, disk_ok)
        \/ handle_connection_reply(e)
        \/ handle_connection_send(e)
        \/ handle_connection_finally(e)
ServerHandshake ==
    \E e \in Ends, short \in BOOLEAN :
        \/ handle_handshake_header(e, short)
        \/ handle_handshake_data(e, short)
        \/ handle_handshake_ack(e)
ServerReceive ==
    \E e \in Ends, short \in BOOLEAN :
        \/ receive_data_start(e)
        \/ receive_data_header(e, short)
        \/ receive_data_seq(e, short)
        \/ receive_data_chunk(e, short)
ServerSend ==
    \E e \in Ends, short \in BOOLEAN :
        \/ send_data_start(e)
        \/ send_data_chunk(e)
        \/ send_data_attempt(e)
        \/ send_data_response(e, short)
ServerClientSends ==
    \E e \in Ends, f \in ServerFrames :
        /\ RecvRunning(e)
        /\ peer_frames[e] = <<>>
        /\ peer_send_frame(e, f)
ServerClientResponds == \E e \in Ends : peer_respond(e, AckHeader)
ServerClientBreaks == \E e \in Ends : ConnRunning(e) /\ peer_break(e)

NextServer ==
    \/ ServerAccept
    \/ ServerHandler
    \/ ServerHandshake
    \/ ServerReceive
    \/ ServerSend
    \/ ServerClientSends
    \/ ServerClientResponds
    \/ ServerClientBreaks

SpecServer == InitServer /\ [][NextServer]_vars

\* the activation records of the handler thread of connection e
Thread(e) == <<hc[e], hs[e], rx[e], tx[e]>>

\* C12: a step of the handler thread of one connection (handshake insert,
\* counter updates, failure paths, teardown delete) leaves the session entry
\* of the other connection, while that one is being served, unchanged and
\* leaves the accept loop accepting.
C12_ConnectionsIsolated ==
    [][ \A e \in Ends :
          (/\ hc[e].pc # "off" /\ Thread(e)' # Thread(e)
           /\ hc[Peer(e)].pc \notin {"off", "closed"})
          => /\ client_sequences'[client_ip(Peer(e))] = client_sequences[client_ip(Peer(e))]
             /\ server' = server ]_vars

(***************************************************************************)
(* SpecWav: verify_wav_format and ensure_valid_wav_format applied to byte  *)
(* strings with every combination of the four markers, to well-formed      *)
(* containers, to truncated containers and to raw PCM.                     *)
(***************************************************************************)
verify_wav_format_call ==
    /\ call.fn = "verify_wav_format" /\ call.pc = "call"
    /\ call' = [call EXCEPT !.pc = "ret", !.result = verify_wav_format(call.arg)]
    /\ UNCHANGED <<wire, broken, client_sequences, hs, rx, tx, hc, rdpos, peer_frames,
                   config, server>>

ensure_valid_wav_format_call ==
    /\ call.fn = "ensure_valid_wav_format" /\ call.pc = "call"
    /\ call' = [call EXCEPT !.pc = "ret", !.result = ensure_valid_wav_format(call.arg)]
    /\ UNCHANGED <<wire, broken, client_sequences, hs, rx, tx, hc, rdpos, peer_frames,
                   config, server>>

\* ensure_valid_wav_format applied to its own result
ensure_valid_wav_format_again ==
    /\ call.fn = "ensure_valid_wav_format" /\ call.pc = "ret"
    /\ call' = [call EXCEPT !.pc = "again", !.again = ensure_valid_wav_format(call.result)]
    /\ UNCHANGED <<wire, broken, client_sequences, hs, rx, tx, hc, rdpos, peer_frames,
                   config, server>>

\* lines 606-609 and 658: the result is built in a buffer of its own
repair_wav_file_call ==
    /\ call.fn = "repair_wav_file" /\ call.pc = "call"
    /\ call' = [call EXCEPT !.pc = "ret", !.result = repair_wav_file(call.arg)]
    /\ UNCHANGED <<wire, broken, client_sequences, hs, rx, tx, hc, rdpos, peer_frames,
                   config, server>>

MaxPcm == 3        \* raw PCM and truncated inputs of up to 12 + MaxPcm bytes

Filler(n) == [i \in 1..n |-> (3 * i) % 251]
MarkerAt(off) == IF off = 0 THEN RIFF ELSE IF off = 8 THEN WAVE
                 ELSE IF off = 12 THEN FMT ELSE DATA
\* the bytes s with the markers of the offsets in offs written over them
Stamp(s, offs) ==
    [i \in 1..Len(s) |->
        IF \E off \in offs : i > off /\ i <= off + 4
        THEN LET off == CHOOSE o \in offs : i > o /\ i <= o + 4 IN MarkerAt(off)[i - off]
        ELSE s[i]]
WavInputs ==
    {Stamp(Filler(n), offs) : n \in {44, 45, 47}, offs \in SUBSET {0, 8, 12, 36}}
    \cup {create_wav_from_pcm(Filler(n), 8000, 2, 1) : n \in 0..MaxPcm}
    \cup {create_wav_from_pcm(Filler(n), 16000, 1, 2) : n \in 0..MaxPcm}
    \cup {Filler(n) : n \in 0..(12 + MaxPcm)}
    \cup {Take(Stamp(Filler(44), offs), n) : n \in {4, 11, 12, 20, 43},
                                             offs \in {{0}, {8}, {0, 8}, {12}, {0, 8, 12}}}

InitWav ==
    \E input \in WavInputs,
       fn \in {"verify_wav_format", "ensure_valid_wav_format", "repair_wav_file"} :
        /\ call = Call(fn, input)
        /\ wire = [e \in Ends |-> <<>>]
        /\ broken = [e \in Ends |-> FALSE]
        /\ client_sequences = [e \in Ends |-> NoSession]
        /\ hs = [e \in Ends |-> HsOff]
        /\ rx = [e \in Ends |-> RxOff]
        /\ tx = [e \in Ends |-> TxOff]
        /\ hc = [e \in Ends |-> HcOff]
        /\ rdpos = [e \in Ends |-> 0]
        /\ peer_frames = [e \in Ends |-> <<>>]
        /\ server = Listening
        /\ config = Config({}, TRUE, FALSE, <<>>, <<>>)

NextWav ==
    \/ verify_wav_format_call
    \/ ensure_valid_wav_format_call
    \/ repair_wav_file_call
    \/ ensure_valid_wav_format_again

SpecWav == InitWav /\ [][NextWav]_vars

(***************************************************************************)
(* Properties of the container functions (SpecWav)                         *)
(***************************************************************************)
Returned(fn) == call.fn = fn /\ call.pc = "ret"
HasMarker(s, off, marker) == Len(s) >= off + 4 /\ SubSeq(s, off + 1, off + 4) = marker
\* length >= 44 with 'RIFF' at 0, 'WAVE' at 8, 'fmt ' at 12 and 'data' at 36
WellFormed(s) ==
    /\ Len(s) >= 44
    /\ HasMarker(s, 0, <<82, 73, 70, 70>>)
    /\ HasMarker(s, 8, <<87, 65, 86, 69>>)
    /\ HasMarker(s, 12, <<102, 109, 116, 32>>)
    /\ HasMarker(s, 36, <<100, 97, 116, 97>>)
\* the little-endian field of n bytes at offset off
Field(s, off, n) ==
    IF n = 2 THEN s[off + 1] + 256 * s[off + 2]
    ELSE s[off + 1] + 256 * s[off + 2] + 65536 * s[off + 3] + 16777216 * s[off + 4]

\* C13: ensure_valid_wav_format returns an input that satisfies
\* verify_wav_format byte for byte.
C13_WellFormedUnchanged ==
    (Returned("ensure_valid_wav_format") /\ WellFormed(call.arg)) => call.result = call.arg

\* a well-formed 8000 Hz two-channel container returned as it came
C13_Witness ==
    /\ Returned("ensure_valid_wav_format")
    /\ WellFormed(call.arg)
    /\ Field(call.arg, 24, 4) = 8000
    /\ Field(call.arg, 22, 2) = 2
    /\ call.result = call.arg

\* C14: an input with neither 'RIFF' at 0 nor 'WAVE' at 8, of any length, is
\* returned as a container that passes verify_wav_format, whose data-chunk
\* length is the input length, with format 16000 Hz, 1 channel, 16 bits,
\* followed by the input bytes.
C14_RawPcmWrapped ==
    (/\ Returned("ensure_valid_wav_format")
     /\ ~HasMarker(call.arg, 0, <<82, 73, 70, 70>>)
     /\ ~HasMarker(call.arg, 8, <<87, 65, 86, 69>>))
    => /\ WellFormed(call.result)
       /\ Field(call.result, 40, 4) = Len(call.arg)
       /\ Field(call.result, 24, 4) = 16000
       /\ Field(call.result, 22, 2) = 1
       /\ Field(call.result, 34, 2) = 16
       /\ SubSeq(call.result, 45, Len(call.result)) = call.arg

\* three bytes of raw PCM (an odd number, shorter than 12) wrapped
C14_Witness ==
    /\ Returned("ensure_valid_wav_format")
    /\ call.arg = Filler(3)
    /\ Len(call.result) = 47
    /\ Field(call.result, 40, 4) = 3

\* C15: an input with at least one of the four markers in place that does
\* not satisfy verify_wav_format is returned as bytes that do, with overall
\* size = total length - 8, format-chunk size 16 and data-chunk size = total
\* length - 44.
C15_CorruptedRepaired ==
    (/\ Returned("ensure_valid_wav_format")
     /\ ~WellFormed(call.arg)
     /\ \/ HasMarker(call.arg, 0, <<82, 73, 70, 70>>)
        \/ HasMarker(call.arg, 8, <<87, 65, 86, 69>>)
        \/ HasMarker(call.arg, 12, <<102, 109, 116, 32>>)
        \/ HasMarker(call.arg, 36, <<100, 97, 116, 97>>))
    => /\ WellFormed(call.result)
       /\ Field(call.result, 4, 4) = Len(call.result) - 8
       /\ Field(call.result, 16, 4) = 16
       /\ Field(call.result, 40, 4) = Len(call.result) - 44

(***************************************************************************)
(* SpecCodec: calculate_checksum, build_packet_header and                  *)
(* parse_packet_header applied to byte strings and field values at and     *)
(* around the edges of their widths.                                       *)
(***************************************************************************)
calculate_checksum_call ==
    /\ call.fn = "calculate_checksum" /\ call.pc = "call"
    /\ call' = [call EXCEPT !.pc = "ret", !.result = calculate_checksum(call.arg)]
    /\ UNCHANGED <<wire, broken, client_sequences, hs, rx, tx, hc, rdpos, peer_frames,
                   config, server>>

\* build_packet_header followed by parse_packet_header; a length of 2^31 or
\* more is handed to the packing as its two halves
build_packet_header_call ==
    LET a == call.arg
        header == IF a.length.hi < 32768
                  THEN build_packet_header(a.length.hi * 65536 + a.length.lo, a.type,
                                           a.checksum)
                  ELSE pack_IBBH(a.length, PROTOCOL_VERSION, a.type, a.checksum)
    IN /\ call.fn = "build_packet_header" /\ call.pc = "call"
       /\ call' = [call EXCEPT !.pc = "ret",
                               !.result = [header |-> header,
                                           parsed |-> parse_packet_header(header)]]
       /\ UNCHANGED <<wire, broken, client_sequences, hs, rx, tx, hc, rdpos, peer_frames,
                      config, server>>

parse_packet_header_call ==
    /\ call.fn = "parse_packet_header" /\ call.pc = "call"
    /\ call' = [call EXCEPT !.pc = "ret", !.result = parse_packet_header(call.arg)]
    /\ UNCHANGED <<wire, broken, client_sequences, hs, rx, tx, hc, rdpos, peer_frames,
                   config, server>>

MaxChecksumLen == 3    \* every string of edge bytes up to this length is summed

EdgeBytes == {0, 1, 127, 254, 255}
RECURSIVE Strings(_, _)
Strings(alphabet, n) ==
    IF n = 0 THEN {<<>>}
    ELSE LET shorter == Strings(alphabet, n - 1)
         IN shorter \cup {Append(w, b) : w \in {x \in shorter : Len(x) = n - 1},
                                         b \in alphabet}
ChecksumInputs ==
    Strings(EdgeBytes, MaxChecksumLen)
    \cup {<<b>> : b \in Byte}
    \cup {[i \in 1..n |-> 255] : n \in {PACKET_MAX_SIZE - 1, PACKET_MAX_SIZE}}
    \cup {[i \in 1..n |-> 254] : n \in {PACKET_MAX_SIZE - 1, PACKET_MAX_SIZE}}
    \cup {Payload(200, PACKET_MAX_SIZE), expected_magic}
EdgeHalves == {0, 1, 255, 256, 32767, 32768, 65535}
HeaderFields ==
    [length : [hi : EdgeHalves, lo : EdgeHalves],
     type : {0, PACKET_TYPE_HANDSHAKE, PACKET_TYPE_DATA, PACKET_TYPE_DATA_END,
             PACKET_TYPE_ACK, PACKET_TYPE_NACK, 6, 255},
     checksum : {0, 1, 255, 256, 14045, 65535}]
EightBytes ==
    {pack_IBBH(U32(length), version, type, checksum) :
        length \in {0, 4, 65536}, version \in Byte,
        type \in {PACKET_TYPE_HANDSHAKE, PACKET_TYPE_DATA, 255}, checksum \in {0, 14045}}
    \cup {Take(AckHeader, n) : n \in 0..7}
    \cup {AckHeader \o <<0>>}

InitCodec ==
    /\ \/ \E data \in ChecksumInputs : call = Call("calculate_checksum", data)
       \/ \E fields \in HeaderFields : call = Call("build_packet_header", fields)
       \/ \E header \in EightBytes : call = Call("parse_packet_header", header)
    /\ wire = [e \in Ends |-> <<>>]
    /\ broken = [e \in Ends |-> FALSE]
    /\ client_sequences = [e \in Ends |-> NoSession]
    /\ hs = [e \in Ends |-> HsOff]
    /\ rx = [e \in Ends |-> RxOff]
    /\ tx = [e \in Ends |-> TxOff]
    /\ hc = [e \in Ends |-> HcOff]
    /\ rdpos = [e \in Ends |-> 0]
    /\ peer_frames = [e \in Ends |-> <<>>]
    /\ server = Listening
    /\ config = Config({}, TRUE, FALSE, <<>>, <<>>)

NextCodec ==
    \/ calculate_checksum_call
    \/ build_packet_header_call
    \/ parse_packet_header_call

SpecCodec == InitCodec /\ [][NextCodec]_vars

(***************************************************************************)
(* Properties of the codec (SpecCodec)                                     *)
(***************************************************************************)
\* the reference definition: the sums after the bytes from position i on are
\* added to sums
RECURSIVE ReferenceSums(_, _, _)
ReferenceSums(data, i, sums) ==
    IF sums.sum1 < 255 /\ sums.sum2 < 255 /\ i <= Len(data)
    THEN ReferenceSums(data, i + 1,
                       [sum1 |-> (sums.sum1 + data[i]) % 255,
                        sum2 |-> (sums.sum2 + ((sums.sum1 + data[i]) % 255)) % 255])
    ELSE sums

\* C16: calculate_checksum is (sum2 << 8) | sum1 of the reference sums; it
\* is 0 for the empty payload, 0x0101 for the payload 01, and fits in 16 bits.
C16_ChecksumMatchesReference ==
    Returned("calculate_checksum") =>
        LET sums == ReferenceSums(call.arg, 1, [sum1 |-> 0, sum2 |-> 0])
        IN /\ call.result = sums.sum2 * 256 + sums.sum1
           /\ sums.sum1 < 256
           /\ call.result >= 0 /\ call.result <= 65535
           /\ call.arg = <<>> => call.result = 0
           /\ call.arg = <<1>> => call.result = 257

\* a full chunk of bytes 255, which the sums take for zeros
C16_Witness ==
    /\ Returned("calculate_checksum")
    /\ Len(call.arg) = PACKET_MAX_SIZE
    /\ \A i \in 1..Len(call.arg) : call.arg[i] = 255
    /\ call.result = 0

\* C17: parsing a built header gives back the length, the type and the
\* checksum with the fixed version, for every value of their widths (the
\* header being the big-endian fields in order); an 8-byte header whose
\* version byte is not the fixed version is rejected.
C17_HeaderRoundTrip ==
    /\ Returned("build_packet_header") =>
          LET a == call.arg
              r == call.result
          IN /\ r.header = <<a.length.hi \div 256, a.length.hi % 256,
                             a.length.lo \div 256, a.length.lo % 256,
                             1, a.type, a.checksum \div 256, a.checksum % 256>>
             /\ r.parsed.valid
             /\ r.parsed.length = a.length
             /\ r.parsed.version = 1
             /\ r.parsed.type = a.type
             /\ r.parsed.checksum = a.checksum
    /\ (Returned("parse_packet_header") /\ Len(call.arg) = 8 /\ call.arg[5] # 1)
       => ~call.result.valid

\* the largest length, type and checksum round-tripped
C17_Witness ==
    /\ Returned("build_packet_header")
    /\ call.arg.length = [hi |-> 65535, lo |-> 65535]
    /\ call.arg.type = 255
    /\ call.arg.checksum = 65535
    /\ call.result.header = <<255, 255, 255, 255, 1, 255, 255, 255>>
    /\ call.result.parsed.length = [hi |-> 65535, lo |-> 65535]

(***************************************************************************)
(* Properties of the frames of the send loop (SpecSend)                    *)
(***************************************************************************)
ChunkCount(n) == (n + PACKET_MAX_SIZE - 1) \div PACKET_MAX_SIZE
ReferenceChecksum(data) ==
    LET sums == ReferenceSums(data, 1, [sum1 |-> 0, sum2 |-> 0])
    IN sums.sum2 * 256 + sums.sum1

\* C18: a non-empty payload goes out as ceil(len / PACKET_MAX_SIZE) chunks in
\* order, each of 1..PACKET_MAX_SIZE bytes, which put together are the
\* payload; the frame of the final chunk has type DataEnd and every earlier
\* one type Data; the header of each frame carries the length and the
\* checksum of its chunk.
C18_ChunkedInOrder ==
    LET t == tx["a"]
        n == Len(t.data)
    IN n > 0 =>
       /\ \A i \in 1..Len(t.log) :
             LET f == t.log[i].frame
                 pos == t.log[i].pos
                 size == Len(f) - PACKET_HEADER_SIZE - 2
                 chunk == SubSeq(f, PACKET_HEADER_SIZE + 3, Len(f))
                 k == (pos \div PACKET_MAX_SIZE) + 1
             IN /\ pos = (k - 1) * PACKET_MAX_SIZE
                /\ t.pc \in {"send", "wait"} => k = Len(t.acked) + 1
                /\ k <= ChunkCount(n)
                /\ size \in 1..PACKET_MAX_SIZE
                /\ size = IF k < ChunkCount(n) THEN PACKET_MAX_SIZE ELSE n - pos
                /\ chunk = SubSeq(t.data, pos + 1, pos + size)
                /\ SubSeq(f, 1, 4) = <<0, 0, size \div 256, size % 256>>
                /\ f[6] = IF k = ChunkCount(n) THEN PACKET_TYPE_DATA_END ELSE PACKET_TYPE_DATA
                /\ f[7] * 256 + f[8] = ReferenceChecksum(chunk)
       /\ \A i \in 1..Len(t.acked) :
             /\ i <= ChunkCount(n)
             /\ t.acked[i].pos = (i - 1) * PACKET_MAX_SIZE
             /\ Len(t.acked[i].chunk) \in 1..PACKET_MAX_SIZE
             /\ t.acked[i].type = IF i = ChunkCount(n) THEN PACKET_TYPE_DATA_END
                                  ELSE PACKET_TYPE_DATA
       /\ TxReturned("True") =>
             /\ Len(t.acked) = ChunkCount(n)
             /\ ChunksUpTo(t.acked, Len(t.acked)) = t.data

\* two full chunks and a final chunk of one byte, all acknowledged
C18_Witness ==
    /\ TxReturned("True")
    /\ Len(tx["a"].data) = 2 * PACKET_MAX_SIZE + 1
    /\ Len(tx["a"].acked) = 3
    /\ tx["a"].acked[1].type = PACKET_TYPE_DATA
    /\ tx["a"].acked[2].type = PACKET_TYPE_DATA
    /\ tx["a"].acked[3].type = PACKET_TYPE_DATA_END
    /\ Len(tx["a"].acked[3].chunk) = 1

\* C20: every retransmission of a chunk is the first transmission again: the
\* same 8-byte header, the same sequence number and the same payload bytes.
C20_RetransmissionIdentical ==
    \A i \in 1..Len(TxLog) :
        LET first == TxLog[1].frame
            again == TxLog[i].frame
        IN /\ Len(again) = Len(first)
           /\ SubSeq(again, 1, PACKET_HEADER_SIZE) = SubSeq(first, 1, PACKET_HEADER_SIZE)
           /\ again[PACKET_HEADER_SIZE + 1] = first[PACKET_HEADER_SIZE + 1]
           /\ again[PACKET_HEADER_SIZE + 2] = first[PACKET_HEADER_SIZE + 2]
           /\ again[PACKET_HEADER_SIZE + 1] * 256 + again[PACKET_HEADER_SIZE + 2]
                 = TxLog[1].seq
           /\ TxLog[i].seq = TxLog[1].seq
           /\ SubSeq(again, PACKET_HEADER_SIZE + 3, Len(again))
                 = SubSeq(first, PACKET_HEADER_SIZE + 3, Len(first))

\* the second chunk written three times, after a Nack and after a timeout
C20_Witness ==
    /\ Len(TxLog) = 3
    /\ \A i \in 1..3 : TxLog[i].wrote /\ TxLog[i].seq = 1
    /\ TxLog[3].retry = 2
    /\ TxLog[3].pos = PACKET_MAX_SIZE

(***************************************************************************)
(* Properties of the end of the receive loop (SpecRecv)                    *)
(***************************************************************************)
RECURSIVE FramesBytes(_, _)
FramesBytes(frames, n) ==
    IF n = 0 THEN <<>> ELSE FramesBytes(frames, n - 1) \o FrameBytes(frames[n].frame)
\* the bytes the peer has written to the receive loop, from the first one
RxStream == FramesBytes(RxFrames, Len(RxFrames))

\* C19: the step that accepts a frame (appends its payload to the buffer)
\* returns the buffer when the type byte of that frame is DataEnd and goes
\* back to reading a header for any other type; the buffer is returned by
\* no other step; once the call has returned nothing more is read.
C19_ReturnsOnDataEndOnly ==
    [][ LET r == rx["a"]
            after == rx'["a"]
            accepted == Len(after.received_data) > Len(r.received_data)
            type == RxStream[after.frame_off + 6]
        IN /\ accepted =>
                 /\ after.received_data =
                       r.received_data
                       \o SubSeq(RxStream, after.frame_off + PACKET_HEADER_SIZE + 3,
                                 rdpos'["a"])
                 /\ type = PACKET_TYPE_DATA_END => (after.pc = "ret" /\ after.ret = "data")
                 /\ type # PACKET_TYPE_DATA_END => (after.pc = "hdr" /\ after.ret = "none")
           /\ (after.ret = "data" /\ r.ret # "data") =>
                 (accepted /\ type = PACKET_TYPE_DATA_END)
           /\ r.pc = "ret" => (rdpos'["a"] = rdpos["a"] /\ after = r) ]_vars

\* a frame of type Ack accepted as payload, then a DataEnd frame: the buffer
\* is returned with every byte of the peer read and none beyond
C19_Witness ==
    /\ rx["a"].pc = "ret" /\ rx["a"].ret = "data"
    /\ Len(RxFrames) = 2
    /\ RxFrames[1].frame.type = PACKET_TYPE_ACK
    /\ RxFrames[2].frame.type = PACKET_TYPE_DATA_END
    /\ rx["a"].received_data = <<5, 5, 6>>
    /\ rdpos["a"] = Len(RxStream)

(***************************************************************************)
(* Properties of the order of the send loop (SpecSend)                     *)
(***************************************************************************)
\* C21: the chunk position and send_sequence move only in the step that reads
\* a response header with the fixed version and type Ack for the chunk just
\* written, by the size of that chunk and by exactly 1 (the session table
\* likewise); every frame written carries, in two bytes, the number of the
\* chunks acknowledged before it, counted from the session's send_sequence.
C21_StopAndWait ==
    [][ LET t == tx["a"]
            after == tx'["a"]
            response == wire["a"]
        IN /\ (t.pc # "start" /\ (after.total_sent # t.total_sent
                                  \/ after.send_sequence # t.send_sequence
                                  \/ client_sequences'["a"] # client_sequences["a"]))
              => /\ t.pc = "wait"
                 /\ TxLog # <<>> /\ TxLog[Len(TxLog)].wrote
                 /\ Len(response) >= PACKET_HEADER_SIZE
                 /\ response[5] = PROTOCOL_VERSION
                 /\ response[6] = PACKET_TYPE_ACK
                 /\ after.send_sequence = t.send_sequence + 1
                 /\ after.total_sent = t.total_sent + Len(t.chunk)
                 /\ client_sequences'["a"].send = client_sequences["a"].send + 1
                 /\ client_sequences'["a"].receive = client_sequences["a"].receive
           /\ Len(after.log) > Len(t.log)
              => LET f == after.log[Len(after.log)].frame
                 IN /\ f[PACKET_HEADER_SIZE + 1] * 256 + f[PACKET_HEADER_SIZE + 2]
                          = Len(t.acked)
                    /\ Len(t.acked) * PACKET_MAX_SIZE = t.total_sent
                    /\ client_sequences["a"].send = Len(t.acked)
                    /\ \A i \in 1..Len(t.acked) :
                          /\ t.acked[i].seq = i - 1
                          /\ t.acked[i].response[6] = PACKET_TYPE_ACK ]_vars

\* the second chunk acknowledged on its third attempt, after a Nack and a
\* response of another type or none
C21_Witness ==
    /\ Len(tx["a"].acked) = 2
    /\ tx["a"].send_sequence = 2
    /\ client_sequences["a"].send = 2
    /\ Len(TxLog) = 3
    /\ TxLog[3].pos = PACKET_MAX_SIZE
    /\ TxLog[3].seq = 1

(***************************************************************************)
(* SpecSeqLimit: the receive loop of endpoint "a" late in a long transfer: *)
(* the peer has sent AcceptedBefore frames of one byte, numbered from 0,   *)
(* and each was accepted (max_size is the default of line 240, which       *)
(* leaves room for them).  The histories of frames and responses begin at  *)
(* this point.                                                             *)
(***************************************************************************)
AcceptedBefore == 65534    \* frames accepted before the first state

SeqLimitFrames ==
    {GoodFrame(t, q, <<5>>) : t \in {PACKET_TYPE_DATA, PACKET_TYPE_DATA_END},
                              q \in {0, 65534, 65535}}

InitSeqLimit ==
    /\ wire = [e \in Ends |-> <<>>]
    /\ broken = [e \in Ends |-> FALSE]
    /\ client_sequences = [e \in Ends |-> IF e = "a" THEN Session(0, AcceptedBefore)
                                          ELSE NoSession]
    /\ hs = [e \in Ends |-> HsOff]
    /\ rx = [e \in Ends |->
                IF e = "a"
                THEN [RxCall(10 * 1024 * 1024) EXCEPT
                         !.pc = "hdr",
                         !.receive_sequence = AcceptedBefore,
                         !.received_data = [i \in 1..AcceptedBefore |-> 5]]
                ELSE RxOff]
    /\ tx = [e \in Ends |-> TxOff]
    /\ hc = [e \in Ends |-> HcOff]
    /\ rdpos = [e \in Ends |-> IF e = "a" THEN AcceptedBefore * (PACKET_HEADER_SIZE + 3)
                               ELSE 0]
    /\ peer_frames = [e \in Ends |-> <<>>]
    /\ server = Listening
    /\ call = NoCall
    /\ config = Config({"b"}, TRUE, FALSE, <<>>, <<>>)

SeqLimitPeerSends ==
    \E f \in SeqLimitFrames :
        /\ RecvRunning("a")
        /\ Len(peer_frames["a"]) < MaxFrames
        /\ peer_send_frame("a", f)

NextSeqLimit ==
    \/ RecvHeader
    \/ RecvSeq
    \/ RecvChunk
    \/ SeqLimitPeerSends
    \/ RecvPeerBreaks

SpecSeqLimit == InitSeqLimit /\ [][NextSeqLimit]_vars

\* C22: the sequence counters of the session and of the running loops are
\* unsigned 16-bit values, and the two sequence bytes of every frame the
\* sender writes are its send_sequence.
C22_SixteenBitCounters ==
    /\ \A e \in Ends :
          /\ rx[e].receive_sequence \in 0..65535
          /\ tx[e].send_sequence \in 0..65535
          /\ client_sequences[e].present =>
                /\ client_sequences[e].send \in 0..65535
                /\ client_sequences[e].receive \in 0..65535
    /\ \A i \in 1..Len(TxLog) :
          TxLog[i].frame[PACKET_HEADER_SIZE + 1] * 256 + TxLog[i].frame[PACKET_HEADER_SIZE + 2]
             = TxLog[i].seq

(***************************************************************************)
(* Properties of the threads of the server (SpecServer)                    *)
(***************************************************************************)
\* the handler thread of e is in the backoff sleep of a retry, or in the
\* read of a response header
Sleeping(e) == tx[e].pc = "send" /\ tx[e].retry > 0
AwaitingAck(e) == tx[e].pc = "wait"

\* a step of the handler thread of connection e
ThreadStep(e) ==
    \/ \E sockopt_ok \in BOOLEAN : handle_connection_start(e, sockopt_ok)
    \/ handle_connection_handshake(e)
    \/ \E disk_ok \in BOOLEAN : handle_connection_receive(e, disk_ok)
    \/ handle_connection_reply(e)
    \/ handle_connection_send(e)
    \/ handle_connection_finally(e)
    \/ \E short \in BOOLEAN :
          \/ handle_handshake_header(e, short)
          \/ handle_handshake_data(e, short)
          \/ handle_handshake_ack(e)
          \/ receive_data_start(e)
          \/ receive_data_header(e, short)
          \/ receive_data_seq(e, short)
          \/ receive_data_chunk(e, short)
          \/ send_data_start(e)
          \/ send_data_chunk(e)
          \/ send_data_attempt(e)
          \/ send_data_response(e, short)

\* C23: while the handler of one connection sleeps before a retry or waits
\* for a response, the handler of the other connection, when it is running,
\* can take its next step, and the accept loop, unless an exception has
\* ended it, can accept a connection whose address is free.
C23_OthersNotBlocked ==
    \A e \in Ends :
        (Sleeping(e) \/ AwaitingAck(e)) =>
            /\ hc[Peer(e)].pc \notin {"off", "closed"} => ENABLED ThreadStep(Peer(e))
            /\ (server.pc # "exit" /\ hc[Peer(e)].pc = "off" /\ fresh_address(Peer(e)))
               => ENABLED main_improved_accept(Peer(e), TRUE)

\* one handler in the backoff sleep of its second retry while the other is
\* in the middle of its handshake
C23_Witness ==
    /\ Sleeping("a") /\ tx["a"].retry = 2
    /\ hc["b"].pc \notin {"off", "closed"}
    /\ hs["b"].pc = "data"
    /\ server.pc = "accept"

(***************************************************************************)
(* SpecNoisy: the send loop of endpoint "a" drives the receive loop of     *)
(* endpoint "b" over a link that damages every transmission of one chunk   *)
(* of the payload.  The payload fits the receiver's max_size.              *)
(***************************************************************************)
NoisyPayloads == {data \in Payloads : Len(data) >= 1 /\ Len(data) <= DEFAULT_MAX_SIZE}

InitNoisy ==
    \E data \in NoisyPayloads, k \in 0..MaxChunks :
        /\ k * PACKET_MAX_SIZE < Len(data)
        /\ Start([e \in Ends |-> Session(0, 0)], [e \in Ends |-> HsOff],
                 [e \in Ends |-> IF e = "b" THEN RxCall(DEFAULT_MAX_SIZE) ELSE RxOff],
                 [e \in Ends |-> IF e = "a" THEN TxCall(data, DEFAULT_MAX_RETRIES) ELSE TxOff],
                 [e \in Ends |-> HcOff], <<>>)
        /\ config = [Config({}, TRUE, FALSE, <<>>, <<>>) EXCEPT
                        !.corrupt = {k * PACKET_MAX_SIZE}]

\* the receiver answers every attempt, so the sender's read never times out
NextNoisy ==
    \/ XferSendStart
    \/ XferSendChunk
    \/ XferSendAttempt
    \/ XferSendResponse
    \/ XferRecvStart
    \/ XferRecvHeader
    \/ XferRecvSeq
    \/ XferRecvChunk
    \/ XferRecvTimeout

SpecNoisy == InitNoisy /\ [][NextNoisy]_vars
\* both loops run on their own thread and every enabled step is eventually taken
FairSpecNoisy == SpecNoisy /\ WF_vars(NextNoisy)

\* the responses of the receiver to the transmissions of the damaged chunk
NoisyResponses ==
    SelectSeq(rx["b"].resp, LAMBDA r : r.have \in config.corrupt)

NoisyNotAdvanced ==
    /\ ~(tx["a"].pc = "ret" /\ tx["a"].ret = "True")
    /\ ~(rx["b"].pc = "ret" /\ rx["b"].ret = "data")
    /\ \A pos \in config.corrupt :
          /\ Len(rx["b"].received_data) <= pos
          /\ rx["b"].receive_sequence <= pos \div PACKET_MAX_SIZE
          /\ tx["a"].total_sent <= pos
    /\ \A i \in 1..Len(NoisyResponses) :
          /\ NoisyResponses[i].kind = "NACK"
          /\ NoisyResponses[i].why = "checksum"
    /\ (tx["a"].pc = "ret" /\ tx["a"].ret = "False") =>
          /\ Len(TxLog) = tx["a"].max_retries
          /\ Len(NoisyResponses) = tx["a"].max_retries

NoisyAborted ==
    /\ tx["a"].pc = "ret" /\ tx["a"].ret = "False"
    /\ rx["b"].pc = "ret" /\ rx["b"].ret = "None"

\* C24: when every transmission of one chunk arrives with a failing
\* checksum, each attempt is answered with a Nack and neither side moves
\* past the chunk; the sender returns False after max_retries attempts, the
\* receiver then returns None on its read timeout, and neither side ever
\* reports the transfer complete.
C24_RepeatedChecksumFailureAborts ==
    /\ []NoisyNotAdvanced
    /\ <>[]NoisyAborted

\* the second chunk is damaged: the first one was delivered, the second was
\* refused five times, both sides have given up
C24_Witness ==
    /\ NoisyAborted
    /\ config.corrupt = {PACKET_MAX_SIZE}
    /\ Len(tx["a"].acked) = 1
    /\ Len(rx["b"].received_data) = PACKET_MAX_SIZE
    /\ Len(NoisyResponses) = DEFAULT_MAX_RETRIES

(***************************************************************************)
(* Properties of the order of the stages of the handler (SpecConn)         *)
(***************************************************************************)
StageOrder ==
    {<<"start", "handshake">>, <<"handshake", "receive">>, <<"receive", "reply">>,
     <<"reply", "send">>, <<"send", "finally">>, <<"finally", "closed">>,
     <<"start", "finally">>, <<"handshake", "finally">>, <<"receive", "finally">>}

\* C25: the stages of the handler run in order and none is entered early:
\* the receive loop runs, and bytes after the handshake frame are read, only
\* after handle_handshake returned True (before that only handle_handshake
\* reads); the payload is saved, validated and
\* transcribed, and the send loop is started, only after the receive loop
\* returned a payload, the saving coming first.
C25_StagesInOrder ==
    [][ LET h == hc'["a"]
        IN /\ hc'["a"].pc # hc["a"].pc => <<hc["a"].pc, hc'["a"].pc>> \in StageOrder
           /\ rx'["a"] # RxOff =>
                 /\ hs'["a"].pc = "ret" /\ hs'["a"].ret = "True"
                 /\ h.pc \notin {"start", "handshake"}
           /\ rdpos'["a"] # rdpos["a"] =>
                 \/ HandshakeRunning("a")
                 \/ (RecvRunning("a") /\ hs["a"].pc = "ret" /\ hs["a"].ret = "True")
           /\ (h.saved \/ h.transcribed \/ h.received_data # <<>> \/ h.pc \in {"reply", "send"}) =>
                 /\ rx'["a"].pc = "ret" /\ rx'["a"].ret = "data"
                 /\ rx'["a"].received_data # <<>>
           /\ h.transcribed => h.saved
           /\ tx'["a"] # TxOff =>
                 /\ rx'["a"].pc = "ret" /\ rx'["a"].ret = "data"
                 /\ h.saved /\ h.transcribed
                 /\ h.pc \in {"send", "finally", "closed"} ]_vars

\* a complete exchange: handshake, payload received and saved, reply delivered
C25_Witness ==
    /\ hc["a"].pc = "closed" /\ hc["a"].exit = "success"
    /\ hs["a"].ret = "True"
    /\ rx["a"].ret = "data"
    /\ hc["a"].saved /\ hc["a"].transcribed
    /\ tx["a"].ret = "True"
    /\ tx["a"].written # {}

(***************************************************************************)
(* Properties of the counters and the buffer of the receive loop (SpecRecv)*)
(***************************************************************************)
\* the Acks that were written, in order
RxAcks == SelectSeq(RxResp, LAMBDA r : r.kind = "ACK" /\ r.ok)
\* the payload of the frame whose header the receiver read at offset off
PayloadAt(off) ==
    SubSeq(RxStream, off + PACKET_HEADER_SIZE + 3,
           off + PACKET_HEADER_SIZE + 2 + RxStream[off + 3] * 256 + RxStream[off + 4])
RECURSIVE PayloadsOf(_, _)
PayloadsOf(acks, n) ==
    IF n = 0 THEN <<>> ELSE PayloadsOf(acks, n - 1) \o PayloadAt(acks[n].off)

\* C26: on a session whose counters start at 0, receive_sequence (in the loop
\* and in the session table) is the number of Acks written, each of which
\* answers one accepted frame, and the buffer is the payloads of those
\* frames in order; a frame whose Ack could not be written is not accepted.
C26_CountersMatchAccepted ==
    LET r == rx["a"]
    IN /\ r.receive_sequence = Len(RxAcks)
       /\ r.pc \notin {"off", "start"} => client_sequences["a"] = Session(0, Len(RxAcks))
       /\ r.received_data = PayloadsOf(RxAcks, Len(RxAcks))
       /\ \A i \in 1..Len(RxAcks) :
             /\ RxAcks[i].expected = i - 1
             /\ RxAcks[i].have = Len(PayloadsOf(RxAcks, i - 1))
       /\ \A i \in 1..Len(RxResp) :
             (RxResp[i].kind = "ACK" /\ ~RxResp[i].ok) =>
                 /\ i = Len(RxResp)
                 /\ r.pc = "ret" /\ r.ret = "None"
                 /\ Len(r.received_data) = RxResp[i].have

\* two frames accepted, the loop waiting for a third
C26_Witness ==
    /\ rx["a"].pc = "hdr"
    /\ rx["a"].receive_sequence = 2
    /\ Len(RxAcks) = 2
    /\ rx["a"].received_data = <<5, 6, 5>>
    /\ client_sequences["a"].receive = 2

\* C27: a frame refused for its checksum leaves the buffer and
\* receive_sequence as they were and the stream aligned: when the peer's next
\* frame is well-formed, carries the same sequence number and fits, it is
\* answered with exactly one Ack, issued with the same receive_sequence and
\* buffer length as the Nack, and its payload is in the buffer once, right
\* after what had been accumulated.
C27_RetransmissionAfterChecksumNack ==
    \A i \in 1..(Len(RxFrames) - 1), j \in 1..Len(RxResp) :
        LET f == RxFrames[i]
            g == RxFrames[i + 1]
            r == RxResp[j]
        IN (/\ Answers(r, f) /\ r.why = "checksum"
            /\ WellFormedData(g.frame) /\ g.frame.seq = f.frame.seq
            /\ r.have + g.frame.length <= rx["a"].max_size
            /\ ~broken["a"]
            /\ rx["a"].pc = "ret")
           => /\ r.kind = "NACK"
              /\ r.expected = f.frame.seq
              /\ j < Len(RxResp)
              /\ LET a == RxResp[j + 1]
                 IN /\ Answers(a, g) /\ a.kind = "ACK" /\ a.ok
                    /\ a.expected = r.expected /\ a.have = r.have
                    /\ \A k \in 1..Len(RxResp) : Answers(RxResp[k], g) => k = j + 1
                    /\ \A k \in (j + 2)..Len(RxResp) :
                          /\ RxResp[k].have = r.have + g.frame.length
                          /\ RxResp[k].expected = r.expected + 1
                    /\ SubSeq(rx["a"].received_data, r.have + 1, r.have + g.frame.length)
                           = g.frame.payload
                    /\ (i + 1 = Len(RxFrames)) =>
                          Len(rx["a"].received_data) = r.have + g.frame.length

\* a frame refused for its checksum and then accepted when sent again
C27_Witness ==
    /\ rx["a"].pc = "ret" /\ rx["a"].ret = "data"
    /\ Len(RxFrames) = 2
    /\ RxFrames[1].frame = BadChecksum(GoodFrame(PACKET_TYPE_DATA, 0, <<5, 6>>))
    /\ RxFrames[2].frame = GoodFrame(PACKET_TYPE_DATA_END, 0, <<5, 6>>)
    /\ Len(RxResp) = 2
    /\ RxResp[1].why = "checksum"
    /\ RxResp[2].kind = "ACK"
    /\ rx["a"].received_data = <<5, 6>>

(***************************************************************************)
(* Properties of the handshake: frame size and session entry               *)
(* (SpecHandshake)                                                         *)
(***************************************************************************)
\* the length declared by the opening frame, when its header is complete
OpeningLength ==
    (config.opening[1] * 256 + config.opening[2]) * 65536
    + config.opening[3] * 256 + config.opening[4]

\* C28: a handshake frame whose declared length exceeds PACKET_MAX_SIZE is
\* refused with nothing read after its 8-byte header.
C28_OversizeHandshakeNotRead ==
    (/\ Len(config.opening) >= PACKET_HEADER_SIZE
     /\ config.opening[1] = 0
     /\ OpeningLength > PACKET_MAX_SIZE)
    => /\ rdpos["a"] <= PACKET_HEADER_SIZE
       /\ hs["a"].pc = "ret" => hs["a"].ret = "False"

\* C29: the table holds an entry for the client only if its handshake
\* succeeded: when handle_handshake has returned False, for whatever reason,
\* there is none.
C29_SessionOnlyAfterSuccess ==
    /\ (hs["a"].pc = "ret" /\ hs["a"].ret = "False") => ~client_sequences["a"].present
    /\ client_sequences["a"].present => hs["a"].pc \in {"ack", "ret"}

\* C30: every payload the connection handler hands to the send loop is a
\* well-formed WAV container (length >= 44 with 'RIFF', 'WAVE', 'fmt ' and
\* 'data' at offsets 0, 8, 12 and 36), whatever was received or read from
\* the stock reply file.
C30_ReplyAlwaysWellFormed ==
    (hc["a"].pc \in {"send", "finally", "closed"} /\ tx["a"] # TxOff)
    => WellFormed(tx["a"].data)

\* the silence container: a 44-byte header and two zero bytes per sample
Silence(samples) ==
    /\ WellFormed(hc["a"].selected)
    /\ Len(hc["a"].selected) = 44 + 2 * samples
    /\ \A i \in 45..Len(hc["a"].selected) : hc["a"].selected[i] = 0

\* C31: once the handler has selected its reply, in echo mode the selected
\* payload (and the payload handed to the sender) is byte-identical to the
\* result of the inbound validation step; otherwise it is the content of the
\* stock reply file when the file exists, and the synthesized silence
\* container only when it does not.
C31_ReplySelection ==
    hc["a"].transcribed =>
        LET inbound == rx["a"].received_data
            validated == IF WellFormed(inbound) THEN inbound
                         ELSE ensure_valid_wav_format(inbound)
        IN /\ hc["a"].received_data = validated
           /\ config.ECHO_MODE =>
                  /\ hc["a"].selected = validated
                  /\ tx["a"].data = validated
                  /\ hc["a"].mode_str = "ECHO"
           /\ (~config.ECHO_MODE /\ config.reply_exists) =>
                  /\ hc["a"].selected = config.reply_wav
                  /\ hc["a"].mode_str = "REPLY"
           /\ (~config.ECHO_MODE /\ ~config.reply_exists) =>
                  /\ Silence((16000 * SILENCE_MS) \div 1000)
                  /\ hc["a"].mode_str = "SILENT"

C31_Witness ==
    /\ hc["a"].transcribed
    /\ config.ECHO_MODE /\ config.reply_exists
    /\ rx["a"].received_data = <<1, 2>>
    /\ hc["a"].selected = hc["a"].received_data
    /\ hc["a"].selected # rx["a"].received_data

\* C32: a call of repair_wav_file on at least 44 bytes returns a buffer of
\* the length of its input whose bytes from offset 44 on are those of the
\* input, and leaves the input as it was.
C32_RepairKeepsSamples ==
    [][ (/\ call.fn = "repair_wav_file" /\ call.pc = "call" /\ call'.pc = "ret"
         /\ Len(call.arg) >= 44)
        => /\ call'.arg = call.arg
           /\ Len(call'.result) = Len(call.arg)
           /\ \A i \in 45..Len(call.arg) : call'.result[i] = call.arg[i] ]_vars

\* a 47-byte container with 'RIFF' only, rewritten with its three sample bytes kept
C32_Witness ==
    /\ Returned("repair_wav_file")
    /\ Len(call.arg) = 47
    /\ HasMarker(call.arg, 0, <<82, 73, 70, 70>>)
    /\ ~HasMarker(call.arg, 8, <<87, 65, 86, 69>>)
    /\ call.result # call.arg
    /\ WellFormed(call.result)
    /\ SubSeq(call.result, 45, 47) = SubSeq(call.arg, 45, 47)

(***************************************************************************)
(* SpecLossy: the send loop of endpoint "a" drives the receive loop of     *)
(* endpoint "b" over a link that loses the Ack of one accepted frame.  The *)
(* sender's read of the response times out (2 s, line 394) when nothing    *)
(* arrived and the receiver is blocked or has returned.  The receiver     *)
(* returns on its own after the loss, so its reads (30 s) never time out.  *)
(***************************************************************************)
InitLossy ==
    \E data \in NoisyPayloads, k \in 0..MaxChunks :
        /\ k * PACKET_MAX_SIZE < Len(data)
        /\ Start([e \in Ends |-> Session(0, 0)], [e \in Ends |-> HsOff],
                 [e \in Ends |-> IF e = "b" THEN RxCall(DEFAULT_MAX_SIZE) ELSE RxOff],
                 [e \in Ends |-> IF e = "a" THEN TxCall(data, DEFAULT_MAX_RETRIES) ELSE TxOff],
                 [e \in Ends |-> HcOff], <<>>)
        /\ config = [Config({}, TRUE, FALSE, <<>>, <<>>) EXCEPT !.lose = {k}]

\* the receive loop cannot take a step without more bytes from its peer
RecvBlocked(e) ==
    \/ rx[e].pc = "ret"
    \/ rx[e].pc = "hdr" /\ Avail(e) < PACKET_HEADER_SIZE
    \/ rx[e].pc = "seq" /\ Avail(e) < 2
    \/ rx[e].pc = "chunk" /\ Avail(e) < LengthVal(rx[e].header_info.length)

LossySendTimeout == RecvBlocked("b") /\ send_data_response("a", TRUE)

NextLossy ==
    \/ XferSendStart
    \/ XferSendChunk
    \/ XferSendAttempt
    \/ XferSendResponse
    \/ LossySendTimeout
    \/ XferRecvStart
    \/ XferRecvHeader
    \/ XferRecvSeq
    \/ XferRecvChunk

SpecLossy == InitLossy /\ [][NextLossy]_vars
\* both loops run on their own thread and every enabled step is eventually taken
FairSpecLossy == SpecLossy /\ WF_vars(NextLossy)

\* every accepted payload is appended once: the buffer is a prefix of the payload
LossyNoDuplicate ==
    /\ Len(rx["b"].received_data) <= Len(tx["a"].data)
    /\ rx["b"].received_data = Take(tx["a"].data, Len(rx["b"].received_data))

LossyDelivered ==
    /\ tx["a"].pc = "ret" /\ tx["a"].ret = "True"
    /\ rx["b"].pc = "ret" /\ rx["b"].ret = "data"
    /\ rx["b"].received_data = tx["a"].data

\* C33: when the Ack of an accepted frame is lost and the sender retransmits
\* the frame, the receiver never appends the payload a second time and the
\* transfer completes: eventually the receiver has returned the payload that
\* was sent and the sender has returned True.
C33_LostAckRecovered ==
    /\ []LossyNoDuplicate
    /\ <>[]LossyDelivered

\* C34: the receive loop appends a payload to its buffer only for a frame
\* whose header carries the type Data or DataEnd.
C34_OnlyDataFramesAppended ==
    [][ Len(rx'["a"].received_data) > Len(rx["a"].received_data)
        => rx["a"].header_info.type \in {PACKET_TYPE_DATA, PACKET_TYPE_DATA_END} ]_vars

(***************************************************************************)
(* SpecFlip: the send loop of endpoint "a" drives the receive loop of      *)
(* endpoint "b" over a link that replaces one payload byte of the first    *)
(* transmission of one chunk by another value and leaves the header and    *)
(* the sequence number intact.  Every attempt is answered, so no read      *)
(* times out.                                                              *)
(***************************************************************************)
FlipPayloads ==
    {<<0, 7>>, <<255, 7>>, <<5, 6>>, <<7, 254, 0>>,
     [i \in 1..(PACKET_MAX_SIZE + 2) |-> IF i = PACKET_MAX_SIZE + 1 THEN 0 ELSE 9]}
FlipValues == {0, 1, 6, 255}

InitFlip ==
    \E data \in FlipPayloads, at \in 0..2, to \in FlipValues, k \in 0..MaxChunks :
        /\ k * PACKET_MAX_SIZE + at < Len(data)
        /\ data[k * PACKET_MAX_SIZE + at + 1] # to
        /\ Start([e \in Ends |-> Session(0, 0)], [e \in Ends |-> HsOff],
                 [e \in Ends |-> IF e = "b" THEN RxCall(DEFAULT_MAX_SIZE) ELSE RxOff],
                 [e \in Ends |-> IF e = "a" THEN TxCall(data, DEFAULT_MAX_RETRIES) ELSE TxOff],
                 [e \in Ends |-> HcOff], <<>>)
        /\ config = [Config({}, TRUE, FALSE, <<>>, <<>>) EXCEPT
                        !.flip = {[pos |-> k * PACKET_MAX_SIZE, at |-> at, to |-> to]}]

NextFlip ==
    \/ XferSendStart
    \/ XferSendChunk
    \/ XferSendAttempt
    \/ XferSendResponse
    \/ XferRecvStart
    \/ XferRecvHeader
    \/ XferRecvSeq
    \/ XferRecvChunk

SpecFlip == InitFlip /\ [][NextFlip]_vars

\* the responses of the receiver to the transmissions of the chunk at f.pos
FlipResponses(f) == SelectSeq(rx["b"].resp, LAMBDA r : r.have = f.pos)

\* C35: when one payload byte of a data frame is changed in transit, the
\* receiver answers the frame with a Nack for its checksum and does not
\* append the payload: everything the receiver has appended is byte for byte
\* what the sender transmitted.
C35_SingleByteCorruptionDetected ==
    /\ Len(rx["b"].received_data) <= Len(tx["a"].data)
    /\ \A i \in 1..Len(rx["b"].received_data) : rx["b"].received_data[i] = tx["a"].data[i]
    /\ \A f \in config.flip :
          FlipResponses(f) # <<>> =>
              /\ FlipResponses(f)[1].kind = "NACK"
              /\ FlipResponses(f)[1].why = "checksum"

\* C36: when send_data_with_retries returns True, at least one frame was
\* written and the last frame acknowledged carried the type DataEnd.
C36_SuccessEndsWithDataEnd ==
    TxReturned("True") =>
        /\ tx["a"].written # {}
        /\ tx["a"].acked # <<>>
        /\ tx["a"].acked[Len(tx["a"].acked)].type = PACKET_TYPE_DATA_END

\* the step issues exactly one response, an Ack or a Nack, for the header at
\* stream offset off
OneResponse(off) ==
    /\ Len(rx'["a"].resp) = Len(rx["a"].resp) + 1
    /\ SubSeq(rx'["a"].resp, 1, Len(rx["a"].resp)) = rx["a"].resp
    /\ rx'["a"].resp[Len(rx'["a"].resp)].kind \in {"ACK", "NACK"}
    /\ rx'["a"].resp[Len(rx'["a"].resp)].off = off
    /\ rx'["a"].resp[Len(rx'["a"].resp)].ok = ~broken["a"]
NoResponse == rx'["a"].resp = rx["a"].resp

\* C37: between the complete read of an 8-byte header and the next header
\* read or the return, the receive loop issues exactly one response (an Ack
\* or a Nack); a header that could not be read gets none.  A response is
\* written unless the socket is broken.
C37_OneResponsePerHeader ==
    [][ /\ rx["a"].pc = "hdr" =>
              IF rdpos'["a"] = rdpos["a"] + PACKET_HEADER_SIZE /\ rx'["a"] # rx["a"]
              THEN \/ rx'["a"].pc = "seq" /\ NoResponse
                   \/ rx'["a"].pc = "ret" /\ OneResponse(rdpos["a"])
              ELSE NoResponse /\ rx'["a"].pc \in {"hdr", "ret"}
        /\ rx["a"].pc = "seq" =>
              \/ rx'["a"].pc \in {"seq", "chunk"} /\ NoResponse
              \/ rx'["a"].pc \in {"hdr", "ret"} /\ OneResponse(rx["a"].frame_off)
        /\ rx["a"].pc = "chunk" =>
              \/ rx'["a"].pc = "chunk" /\ NoResponse
              \/ rx'["a"].pc \in {"hdr", "ret"} /\ OneResponse(rx["a"].frame_off)
        /\ rx["a"].pc \in {"start", "ret", "off"} => NoResponse ]_vars

\* two headers read: a checksum Nack, then the Ack of the last frame
C37_Witness ==
    /\ rx["a"].pc = "ret" /\ rx["a"].ret = "data"
    /\ Len(rx["a"].resp) = 2
    /\ rx["a"].resp[1].kind = "NACK" /\ rx["a"].resp[1].why = "checksum"
    /\ rx["a"].resp[2].kind = "ACK"
    /\ rx["a"].resp[1].off < rx["a"].resp[2].off
    /\ rx["a"].resp[1].ok /\ rx["a"].resp[2].ok

\* C38: ensure_valid_wav_format applied to its own result returns that
\* result byte for byte, for every input.
C38_EnsureIdempotent ==
    (call.fn = "ensure_valid_wav_format" /\ call.pc = "again") => call.again = call.result

\* 15 bytes of raw PCM: wrapped by the first call, returned as it is by the second
C38_Witness ==
    /\ call.fn = "ensure_valid_wav_format" /\ call.pc = "again"
    /\ call.arg = Filler(15)
    /\ call.result # call.arg
    /\ Len(call.result) = 44 + 15
    /\ call.again = call.result

====
